---- MODULE Spec2Model ----
(***************************************************************************)
(* Iris AI key-account-management CRM: the PIN login flow (Login form and  *)
(* AuthProvider.login), the create-pin-auth edge function, the             *)
(* CreateUpdateModal form, the Projects view with CreateProjectModal, the *)
(* data-loading views with CreateAccountModal, and the api client.         *)
(*                                                                         *)
(* Each part of the program has its own specification over the same        *)
(* variables:                                                              *)
(*   SpecPinAuth   the create-pin-auth edge function and its database      *)
(*   SpecLogin     the Login form and AuthProvider.login                   *)
(*   SpecUpdates   CreateUpdateModal and the updates table                 *)
(*   SpecProjects  ProjectsView, CreateProjectModal and the projects table *)
(*   SpecViews     the data-loading views and CreateAccountModal           *)
(*   SpecApi       apiRequest, ensureApiKeys and the useApi hook           *)
(*   SpecApp       the login form, the create modals and the views, each   *)
(*                 followed on its own                                     *)
(*   SpecTabs      AppContent's tabs, handleRefreshData, QuickCreateModal  *)
(***************************************************************************)
EXTENDS Integers, Sequences, FiniteSets, Bags, TLC

VARIABLES
    \* ---- create-pin-auth edge function and the backend it talks to ----
    profiles,     \* profiles table: row id -> [pin, user_id] (user_id 0 = null)
    authUsers,    \* authentication identities: set of [id, email, password]
    nextUid,      \* next identity id the auth service hands out
    reqs,         \* HTTP requests being served: slot -> request record
    \* ---- AuthProvider (contexts/AuthContext) ----
    authLoading,  \* useState(true): loading
    session,      \* useState(null): session, as the signed-in identity id
    user,         \* useState(null): user
    profile,      \* useState(null): profile, as the profiles row id
    storedSession,   \* the auth client's persisted session (identity id)
    authInitPending, \* mount callbacks not yet run: "event", "getSession"
    profileFetches,  \* identity ids whose deferred profile fetch is pending
    logoutPending,   \* logout() is awaiting supabase.auth.signOut()
    logins,       \* login(pin) calls in flight: slot -> call record
    lastLogin,    \* the login call that resolved last, as handleLogin saw it
    \* ---- Login form (components/Login) ----
    loginForm,    \* which Login the build carries: "input" or "otp"
    pin,          \* useState(''): pin
    formError,    \* useState(''): error
    lastToast,    \* title of the toast shown last
    \* ---- CreateUpdateModal (components/modals/CreateUpdateModal) ----
    updVariant,   \* which handleSubmit the build carries: "split" or "joint"
    updOpen,      \* prop open
    updPreselected,  \* prop preselectedProjectId (NoProject: '' or undefined)
    updForm,      \* useState: formData
    updProjects,  \* useState([]): projects, as the ids of the options
    updFetches,   \* fetchProjects() calls of the modal in flight
    updLoading,   \* useState(false): loading
    updInsert,    \* the insert into updates in flight
    updToast,     \* description of the toast the modal showed last
    dbUpdates,    \* updates table: the rows in the order they were inserted
    \* ---- projects table ----
    dbProjects,   \* projects table: set of rows [id, name, account_id, status]
    nextProjectId,   \* id the next inserted project gets
    \* ---- ProjectsView (components/ProjectsView) ----
    pvProjects,   \* useState([]): projects, in the order fetched
    pvLoading,    \* useState(true): loading
    pvSearchTerm, \* useState(''): searchTerm
    pvStatusFilter,  \* useState('all'): statusFilter
    pvCreateOpen, \* useState(false): createProjectModalOpen
    pvFetches,    \* fetchProjects() calls in flight: bag of call records
    pvDeletes,    \* handleDeleteProject calls in flight: bag of project ids
    pvToast,      \* description of the toast shown last by the view or its modal
    \* ---- CreateProjectModal (components/modals/CreateProjectModal) ----
    cpForm,       \* useState: formData
    cpAccounts,   \* useState([]): accounts, as the ids of the options
    cpLoading,    \* useState(false): loading
    cpInsert,     \* the insert into projects in flight
    \* ---- the data-loading views ----
    vwKind,       \* which view is mounted
    vwLoading,    \* useState: loading of the view
    vwData,       \* the view's data state: slot -> ids of the rows it holds
    vwToast,      \* description of the toast the view showed last
    vwCalls,      \* calls of the view's async functions in flight: bag of records
    vwOpen,       \* prop open of a detail modal
    vwSelected,   \* the id a detail modal or the user filter is about
    dbAccounts,   \* accounts table: ids of its rows
    \* ---- lib/api-client and the useApi hook ----
    apiEnv,       \* process.env: the two key variables
    apiCall,      \* the call of the api client made last, with the requests it sent
    uaData,       \* useApi: useState(null) data
    uaError,      \* useApi: useState(null) error, as the message (<<>>: null)
    uaLoading,    \* useApi: useState(false) loading
    \* ---- CreateAccountModal (components/modals/CreateAccountModal) ----
    caOpen,       \* AccountsView: useState(false) createAccountModalOpen
    caForm,       \* useState: formData
    caLoading,    \* useState(false): loading
    caInsert,     \* the insert into accounts in flight
    \* ---- the create modals ----
    submitTrace,  \* what the handleSubmit that went on last after its insert
                  \* called, in the order of the calls
    \* ---- AppContent (pages/Index) and QuickCreateModal ----
    activeTab,    \* useState('dashboard'): activeTab
    quickCreateModalOpen,  \* useState(false): quickCreateModalOpen
    activeModal,  \* QuickCreateModal: useState(null) activeModal ("": null)
    qcInserts,    \* create modal -> the activeTab its handleSubmit in flight
                  \* was rendered with ("none": no insert in flight)
    refreshTimers,   \* tabs the pending timers of handleRefreshData restore,
                     \* in the order they were scheduled
    tabSelected   \* the tab the user selected since handleRefreshData ran
                  \* last ("": none)

backendVars == <<profiles, authUsers, nextUid>>
fnVars == <<profiles, authUsers, nextUid, reqs>>
authVars == <<authLoading, session, user, profile, storedSession, authInitPending,
              profileFetches, logoutPending, logins, lastLogin>>
formVars == <<loginForm, pin, formError, lastToast>>
updVars == <<updVariant, updOpen, updPreselected, updForm, updProjects, updFetches,
             updLoading, updInsert, updToast, dbUpdates>>
projVars == <<dbProjects, nextProjectId>>
pvVars == <<pvProjects, pvLoading, pvSearchTerm, pvStatusFilter, pvCreateOpen, pvFetches,
            pvDeletes, pvToast>>
cpVars == <<cpForm, cpAccounts, cpLoading, cpInsert>>
vwVars == <<vwKind, vwLoading, vwData, vwToast, vwCalls, vwOpen, vwSelected, dbAccounts>>
apiVars == <<apiEnv, apiCall, uaData, uaError, uaLoading>>
caVars == <<caOpen, caForm, caLoading, caInsert>>
tabVars == <<activeTab, quickCreateModalOpen, activeModal, qcInserts, refreshTimers,
             tabSelected>>
vars == <<fnVars, authVars, formVars, updVars, projVars, pvVars, cpVars, vwVars, apiVars,
          caVars, submitTrace, tabVars>>

\* what the steps of one part of the program leave alone
FnRest == <<authVars, formVars, updVars, projVars, pvVars, cpVars, vwVars, apiVars,
            caVars, submitTrace, tabVars>>
LoginRest == <<reqs, updVars, projVars, pvVars, cpVars, vwVars, apiVars, caVars,
               submitTrace, tabVars>>
UpdOthers == <<fnVars, authVars, formVars, projVars, pvVars, cpVars, vwVars, apiVars,
               caVars, tabVars>>
UpdRest == <<UpdOthers, submitTrace>>
ProjOthers == <<fnVars, authVars, formVars, updVars, vwVars, apiVars, caVars, tabVars>>
ProjRest == <<ProjOthers, submitTrace>>
CaOthers == <<fnVars, authVars, formVars, updVars, projVars, pvVars, cpVars, apiVars,
              tabVars>>
ViewRest == <<CaOthers, caVars, submitTrace>>
ApiRest == <<fnVars, authVars, formVars, updVars, projVars, pvVars, cpVars, vwVars,
             caVars, submitTrace, tabVars>>
TabRest == <<fnVars, authVars, formVars, updVars, projVars, pvVars, cpVars, vwVars,
             apiVars, caVars, submitTrace>>

(***************************************************************************)
(* Bounds of the model                                                     *)
(***************************************************************************)
NProfiles == 1      \* rows of the profiles table
NReq == 2           \* requests the edge function serves concurrently
MaxPinLen == 7      \* longest pin string a request body carries

(***************************************************************************)
(* Program constants                                                       *)
(***************************************************************************)
PIN_LENGTH == 6     \* pin.length !== 6

NoUser == 0         \* null user_id / no identity

(***************************************************************************)
(* Strings are sequences of one-character strings, so that length and      *)
(* concatenation are those of the program's strings.                       *)
(***************************************************************************)
RECURSIVE Rep(_, _)
Rep(c, n) == IF n = 0 THEN <<>> ELSE <<c>> \o Rep(c, n - 1)

DigitChars == <<"1", "2", "3", "4">>

\* The PIN stored in profiles row i.
PinOf(i) == Rep(DigitChars[i], PIN_LENGTH)

\* A well-formed PIN that matches no row.
UnknownPin == Rep("9", PIN_LENGTH)

\* `pin_${pin}@iris.internal`
FnEmail(p) == <<"p", "i", "n", "_">> \o p \o <<"@", "iris.internal">>

(***************************************************************************)
(* create-pin-auth edge function (supabase/functions/create-pin-auth)      *)
(***************************************************************************)

\* Request bodies. kind: "invalid" (not JSON: req.json() throws), "null" (JSON
\* null: destructuring throws), "nopin" (no pin property), "number" (pin is a
\* non-zero number: truthy, no length), "string" (pin is the string in .pin).
FnPinStrings ==
    {Rep("1", n) : n \in {0, PIN_LENGTH - 1} \cup ((PIN_LENGTH + 1)..MaxPinLen)}
    \cup {PinOf(i) : i \in 1..NProfiles} \cup {UnknownPin}

FnBodies ==
    {[kind |-> k, pin |-> <<>>] : k \in {"invalid", "null", "nopin", "number"}}
    \cup {[kind |-> "string", pin |-> p] : p \in FnPinStrings}

NoBody == [kind |-> "nopin", pin |-> <<>>]

Outcomes == {"ok", "error", "throw"}

IdleReq ==
    [pc |-> "idle", method |-> "NONE", body |-> NoBody, pin |-> <<>>,
     ret |-> "none", profUser |-> NoUser, authUser |-> NoUser,
     atArrival |-> NoUser, calls |-> <<>>, resp |-> <<>>]

\* req.json() and the destructuring of { pin } succeed
FnParses(body) == body.kind \notin {"invalid", "null"}

\* JavaScript truthiness of the destructured pin
FnTruthy(body) ==
    \/ body.kind = "number"
    \/ body.kind = "string" /\ body.pin # <<>>

\* pin.length (a number has none: -1 stands for undefined)
FnLength(body) == IF body.kind = "string" THEN Len(body.pin) ELSE -1

\* the mutant: the length test dropped
FnBadPin_NoLength(body) == ~FnTruthy(body)

\* !pin || pin.length !== 6
FnBadPin(body) == ~FnTruthy(body) \/ FnLength(body) # PIN_LENGTH

FnResponse(status, kind, uid, msg) ==
    [status |-> status, kind |-> kind, user_id |-> uid, error |-> msg]

\* return new Response(...): the request ends with this response
FnReturn(r, status, kind, uid, msg) ==
    reqs' = [reqs EXCEPT ![r].pc = "done",
                         ![r].resp = Append(@, FnResponse(status, kind, uid, msg))]

\* one backend call of a request and how it ended
FnCall(op, ret) == [op |-> op, ret |-> ret]

\* rows of profiles whose pin is p
RowsWithPin(p) == {i \in DOMAIN profiles : profiles[i].pin = p}

\* user_id of the profiles row with pin p (NoUser when there is none)
LinkedUser(p) ==
    IF \E i \in RowsWithPin(p) : profiles[i].user_id # NoUser
    THEN profiles[CHOOSE i \in RowsWithPin(p) : profiles[i].user_id # NoUser].user_id
    ELSE NoUser

\* lines 10-38: OPTIONS preflight, body parsing, the pin format check, and
\* the profile lookup being sent
FnServe(r, method, body) ==
    /\ reqs[r].pc = "idle"
    /\ LET q == [reqs[r] EXCEPT !.method = method, !.body = body] IN
       IF method = "OPTIONS"
       THEN /\ body = NoBody      \* the body of a preflight is never read
            /\ reqs' = [reqs EXCEPT ![r] =
                [q EXCEPT !.pc = "done",
                          !.resp = <<FnResponse(200, "ok", NoUser, "")>>]]
       ELSE IF ~FnParses(body)
       THEN reqs' = [reqs EXCEPT ![r] =
                [q EXCEPT !.pc = "done",
                          !.resp = <<FnResponse(500, "error", NoUser, "Internal server error")>>]]
       ELSE IF FnBadPin(body)
       THEN reqs' = [reqs EXCEPT ![r] =
                [q EXCEPT !.pc = "done",
                          !.resp = <<FnResponse(400, "error", NoUser, "Invalid PIN format")>>]]
       ELSE reqs' = [reqs EXCEPT ![r] =
                [q EXCEPT !.pc = "lookup", !.pin = body.pin,
                          !.atArrival = LinkedUser(body.pin)]]
    /\ UNCHANGED <<profiles, authUsers, nextUid>>
    /\ UNCHANGED FnRest

\* lines 34-38: the backend runs .from('profiles').select('*').eq('pin', pin).single()
DbLookup(r, outcome) ==
    /\ reqs[r].pc = "lookup"
    /\ LET rows == RowsWithPin(reqs[r].pin) IN
       IF outcome = "ok" /\ Cardinality(rows) = 1
       THEN LET i == CHOOSE i \in rows : TRUE IN
            reqs' = [reqs EXCEPT ![r].pc = "lookupRet", ![r].ret = "ok",
                                 ![r].profUser = profiles[i].user_id,
                                 ![r].calls = Append(@, FnCall("lookup", "ok"))]
       ELSE reqs' = [reqs EXCEPT ![r].pc = "lookupRet",
                                 ![r].ret = IF outcome = "throw" THEN "throw" ELSE "error",
                                 ![r].calls = Append(@, FnCall("lookup",
                                        IF outcome = "throw" THEN "throw" ELSE "error"))]
    /\ UNCHANGED <<profiles, authUsers, nextUid>>
    /\ UNCHANGED FnRest

\* the mutant: an unknown pin is not rejected
FnAfterLookup_No401(r) ==
    /\ reqs[r].pc = "lookupRet"
    /\ reqs[r].ret # "throw"
    /\ IF reqs[r].ret = "ok" /\ reqs[r].profUser # NoUser
       THEN FnReturn(r, 200, "success", reqs[r].profUser, "")
       ELSE reqs' = [reqs EXCEPT ![r].pc = "create"]
    /\ UNCHANGED <<profiles, authUsers, nextUid>>
    /\ UNCHANGED FnRest

\* the mutant: a linked profile is not short-circuited
FnAfterLookup_NoShortCircuit(r) ==
    /\ reqs[r].pc = "lookupRet"
    /\ reqs[r].ret # "throw"
    /\ IF reqs[r].ret = "error"
       THEN FnReturn(r, 401, "error", NoUser, "Invalid PIN")
       ELSE reqs' = [reqs EXCEPT ![r].pc = "create"]
    /\ UNCHANGED <<profiles, authUsers, nextUid>>
    /\ UNCHANGED FnRest

\* lines 40-70: 401 when the lookup failed, success when the profile is
\* already linked, otherwise auth.admin.createUser is sent
FnAfterLookup(r) ==
    /\ reqs[r].pc = "lookupRet"
    /\ reqs[r].ret # "throw"
    /\ IF reqs[r].ret = "error"
       THEN FnReturn(r, 401, "error", NoUser, "Invalid PIN")
       ELSE IF reqs[r].profUser # NoUser
       THEN FnReturn(r, 200, "success", reqs[r].profUser, "")
       ELSE reqs' = [reqs EXCEPT ![r].pc = "create"]
    /\ UNCHANGED <<profiles, authUsers, nextUid>>
    /\ UNCHANGED FnRest

\* lines 62-70: the auth service runs admin.createUser({email, password: pin});
\* an email is registered at most once
AuthCreateUser(r, outcome) ==
    /\ reqs[r].pc = "create"
    /\ LET email == FnEmail(reqs[r].pin) IN
       IF outcome = "ok" /\ ~\E u \in authUsers : u.email = email
       THEN /\ authUsers' = authUsers \cup
                    {[id |-> nextUid, email |-> email, password |-> reqs[r].pin]}
            /\ nextUid' = nextUid + 1
            /\ reqs' = [reqs EXCEPT ![r].pc = "createRet", ![r].ret = "ok",
                                    ![r].authUser = nextUid,
                                    ![r].calls = Append(@, FnCall("createUser", "ok"))]
       ELSE /\ reqs' = [reqs EXCEPT ![r].pc = "createRet",
                                    ![r].ret = IF outcome = "throw" THEN "throw" ELSE "error",
                                    ![r].calls = Append(@, FnCall("createUser",
                                        IF outcome = "throw" THEN "throw" ELSE "error"))]
            /\ UNCHANGED <<authUsers, nextUid>>
    /\ UNCHANGED profiles
    /\ UNCHANGED FnRest

\* lines 72-87: 500 when the identity was not created, otherwise the profile
\* update is sent
FnAfterCreate(r) ==
    /\ reqs[r].pc = "createRet"
    /\ reqs[r].ret # "throw"
    /\ IF reqs[r].ret = "error" \/ reqs[r].authUser = NoUser
       THEN FnReturn(r, 500, "error", NoUser, "Failed to create auth user")
       ELSE reqs' = [reqs EXCEPT ![r].pc = "update"]
    /\ UNCHANGED <<profiles, authUsers, nextUid>>
    /\ UNCHANGED FnRest

\* lines 84-87: the backend runs .update({user_id}).eq('pin', pin)
DbUpdate(r, outcome) ==
    /\ reqs[r].pc = "update"
    /\ profiles' = IF outcome = "ok"
                   THEN [i \in DOMAIN profiles |->
                            IF profiles[i].pin = reqs[r].pin
                            THEN [profiles[i] EXCEPT !.user_id = reqs[r].authUser]
                            ELSE profiles[i]]
                   ELSE profiles
    /\ reqs' = [reqs EXCEPT ![r].pc = "updateRet", ![r].ret = outcome,
                            ![r].calls = Append(@, FnCall("update", outcome))]
    /\ UNCHANGED <<authUsers, nextUid>>
    /\ UNCHANGED FnRest

\* the mutant: updateError is not looked at
FnAfterUpdate_IgnoreError(r) ==
    /\ reqs[r].pc = "updateRet"
    /\ reqs[r].ret # "throw"
    /\ FnReturn(r, 200, "success", reqs[r].authUser, "")
    /\ UNCHANGED <<profiles, authUsers, nextUid>>
    /\ UNCHANGED FnRest

\* lines 89-105: 500 when the update failed, otherwise success with the new id
FnAfterUpdate(r) ==
    /\ reqs[r].pc = "updateRet"
    /\ reqs[r].ret # "throw"
    /\ IF reqs[r].ret = "error"
       THEN FnReturn(r, 500, "error", NoUser, "Failed to link profile")
       ELSE FnReturn(r, 200, "success", reqs[r].authUser, "")
    /\ UNCHANGED <<profiles, authUsers, nextUid>>
    /\ UNCHANGED FnRest

\* the mutant: the catch block's response has no status
FnCatch_NoStatus(r) ==
    /\ reqs[r].pc \in {"lookupRet", "createRet", "updateRet"}
    /\ reqs[r].ret = "throw"
    /\ FnReturn(r, 200, "error", NoUser, "Internal server error")
    /\ UNCHANGED <<profiles, authUsers, nextUid>>
    /\ UNCHANGED FnRest

\* lines 107-115: a backend call threw
FnCatch(r) ==
    /\ reqs[r].pc \in {"lookupRet", "createRet", "updateRet"}
    /\ reqs[r].ret = "throw"
    /\ FnReturn(r, 500, "error", NoUser, "Internal server error")
    /\ UNCHANGED <<profiles, authUsers, nextUid>>
    /\ UNCHANGED FnRest

\* the response has been delivered; the slot serves the next request
FnForget(r) ==
    /\ reqs[r].pc = "done"
    /\ reqs' = [reqs EXCEPT ![r] = IdleReq]
    /\ UNCHANGED <<profiles, authUsers, nextUid>>
    /\ UNCHANGED FnRest

(***************************************************************************)
(* Login form (components/Login, two versions) and AuthProvider            *)
(***************************************************************************)

MaxLogins == 1          \* login(pin) calls in flight at once

LOGIN_PIN_LENGTH == 6   \* handleLogin: pin.length !== 6
INPUT_MAX_LENGTH == 6   \* Input onChange: .slice(0, 6)
OTP_MAX_LENGTH == 6     \* <InputOTP maxLength={6}>

Digits == {"0", "1", "2", "3", "4", "5", "6", "7", "8", "9"}

\* s.slice(0, n)
Slice(s, n) == SubSeq(s, 1, IF Len(s) < n THEN Len(s) ELSE n)

\* s.replace(/\D/g, '')
RECURSIVE StripNonDigits(_)
StripNonDigits(s) ==
    IF s = <<>> THEN <<>>
    ELSE (IF Head(s) \in Digits THEN <<Head(s)>> ELSE <<>>) \o StripNonDigits(Tail(s))

\* the mutant: the non-digits are not removed
InputOnChange_NoDigitFilter(raw) == Slice(raw, INPUT_MAX_LENGTH)

\* Login with <Input>: onChange={(e) => setPin(e.target.value.replace(/\D/g, '').slice(0, 6))}
InputOnChange(raw) == Slice(StripNonDigits(raw), INPUT_MAX_LENGTH)

\* Login with <InputOTP maxLength={6} onChange={value => setPin(value)}>: the
\* component cuts the typed value to maxLength and drops a change whose value
\* does not match its pattern, digits only unless a pattern prop is given
OtpOnChange(cur, raw) ==
    LET v == Slice(raw, OTP_MAX_LENGTH) IN
    IF v # <<>> /\ \E k \in 1..Len(v) : v[k] \notin Digits THEN cur ELSE v

\* values the change event of the PIN field carries
LoginRawInputs ==
    {<<>>, Rep("1", LOGIN_PIN_LENGTH - 1), <<"1", "a">> \o Rep("1", LOGIN_PIN_LENGTH - 1),
     Rep("1", MaxPinLen), UnknownPin}
    \cup {PinOf(i) : i \in 1..NProfiles}

\* the mutant: the direct sign-in uses another domain
LoginEmailDirect_OtherDomain(p) == <<"p", "i", "n", "_">> \o p \o <<"@", "iris.local">>

\* `pin_${pin}@iris.internal` of the direct sign-in (AuthContext 103)
LoginEmailDirect(p) == <<"p", "i", "n", "_">> \o p \o <<"@", "iris.internal">>

\* `pin_${pin}@iris.internal` of the sign-in after creation (AuthContext 133)
LoginEmailAfter(p) == <<"p", "i", "n", "_">> \o p \o <<"@", "iris.internal">>

IdleLogin == [pc |-> "idle", pin |-> <<>>, calls |-> <<>>]
NoLogin == [pin |-> <<>>, calls |-> <<>>, result |-> FALSE, resolved |-> FALSE]

\* one backend call of login(): what was called, how it ended, the user_id it
\* returned, and the credentials it sent
LoginCall(op, ret, uid, email, password) ==
    [op |-> op, ret |-> ret, user |-> uid, email |-> email, password |-> password]

\* const isAuthenticated = !!session (AuthContext 35)
IsAuthenticated == session # NoUser

\* the mutant: the session is looked at before the loading flag
AppContentRenders_SessionFirst ==
    IF ~IsAuthenticated THEN "Login"
    ELSE IF authLoading THEN "spinner"
    ELSE "Layout"

\* what AppContent returns (Index.tsx 14-24, 49-64): the spinner while
\* loading, <Login /> when not authenticated, otherwise <Layout> with the
\* active view and the modals
AppContentRenders ==
    IF authLoading THEN "spinner"
    ELSE IF ~IsAuthenticated THEN "Login"
    ELSE "Layout"

\* AppContent renders <Login /> (Index.tsx 14-24)
FormMounted == ~authLoading /\ session = NoUser

\* onAuthStateChange callback (AuthContext 40-67) for a session of identity
\* sess (NoUser: no session); the profile fetch is deferred with setTimeout
AuthStateChange(sess) ==
    /\ session' = sess
    /\ user' = sess
    /\ IF sess # NoUser
       THEN profileFetches' = profileFetches \cup {sess} /\ UNCHANGED profile
       ELSE profile' = NoUser /\ UNCHANGED profileFetches
    /\ authLoading' = FALSE

\* the listener is called with the persisted session after it is registered
AuthInitialEvent ==
    /\ "event" \in authInitPending
    /\ authInitPending' = authInitPending \ {"event"}
    /\ AuthStateChange(storedSession)
    /\ UNCHANGED <<storedSession, logoutPending, logins, lastLogin, formVars, backendVars>>
    /\ UNCHANGED LoginRest

\* supabase.auth.getSession().then(...) (AuthContext 71-77)
AuthGetSession ==
    /\ "getSession" \in authInitPending
    /\ authInitPending' = authInitPending \ {"getSession"}
    /\ session' = storedSession
    /\ user' = storedSession
    /\ authLoading' = IF storedSession = NoUser THEN FALSE ELSE authLoading
    /\ UNCHANGED <<profile, storedSession, profileFetches, logoutPending, logins,
                   lastLogin, formVars, backendVars>>
    /\ UNCHANGED LoginRest

\* rows of profiles linked to identity uid
RowsOfUser(uid) == {i \in DOMAIN profiles : profiles[i].user_id = uid}

\* the deferred profile fetch of identity uid returns (AuthContext 47-61):
\* .eq('user_id', uid).single(); setProfile when a row came back
AuthProfileFetch(uid, outcome) ==
    /\ uid \in profileFetches
    /\ profileFetches' = profileFetches \ {uid}
    /\ profile' = IF outcome = "ok" /\ Cardinality(RowsOfUser(uid)) = 1
                  THEN CHOOSE i \in RowsOfUser(uid) : TRUE
                  ELSE profile
    /\ UNCHANGED <<authLoading, session, user, storedSession, authInitPending,
                   logoutPending, logins, lastLogin, formVars, backendVars>>
    /\ UNCHANGED LoginRest

\* the application is rendered (Index.tsx 14-24)
AppMounted == ~authLoading /\ session # NoUser

\* logout() is called and awaits supabase.auth.signOut() (AuthContext 152-153)
AuthLogout ==
    /\ AppMounted
    /\ ~logoutPending
    /\ logoutPending' = TRUE
    /\ UNCHANGED <<authLoading, session, user, profile, storedSession, authInitPending,
                   profileFetches, logins, lastLogin, formVars, backendVars>>
    /\ UNCHANGED LoginRest

\* signOut() returns (AuthContext 153-156). ok: the client drops the session
\* and the listener runs with no session; error: the session is kept; in both
\* cases logout() goes on to clear user, session and profile. throw: logout()
\* rejects and clears nothing.
AuthSignOut(outcome) ==
    /\ logoutPending
    /\ logoutPending' = FALSE
    /\ storedSession' = IF outcome = "ok" THEN NoUser ELSE storedSession
    /\ IF outcome = "throw"
       THEN UNCHANGED <<session, user, profile, authLoading>>
       ELSE /\ session' = NoUser
            /\ user' = NoUser
            /\ profile' = NoUser
            /\ authLoading' = IF outcome = "ok" THEN FALSE ELSE authLoading
    /\ UNCHANGED <<authInitPending, profileFetches, logins, lastLogin, formVars,
                   backendVars>>
    /\ UNCHANGED LoginRest

\* the PIN field changes to raw (typing, deleting, pasting); disabled={loading}
LoginChange(raw) ==
    /\ FormMounted
    /\ ~authLoading
    /\ pin' = IF loginForm = "input" THEN InputOnChange(raw) ELSE OtpOnChange(pin, raw)
    /\ pin' # pin
    /\ UNCHANGED <<loginForm, formError, lastToast, authVars, backendVars>>
    /\ UNCHANGED LoginRest

\* <Button type="submit" disabled={loading || pin.length !== 6}> with the
\* loading of useAuth() (Login 12-15, 90)
LoginSubmitDisabled == authLoading \/ Len(pin) # LOGIN_PIN_LENGTH

\* the form is submitted (the button is disabled={loading || pin.length !== 6})
\* and handleLogin runs up to `await login(pin)`; the call takes the lowest
\* free slot
LoginSubmit(c) ==
    /\ FormMounted
    /\ ~LoginSubmitDisabled
    /\ logins[c].pc = "idle"
    /\ \A d \in 1..(c - 1) : logins[d].pc # "idle"
    /\ IF Len(pin) # LOGIN_PIN_LENGTH
       THEN formError' = "PIN must be 6 digits" /\ UNCHANGED logins
       ELSE /\ formError' = ""
            /\ logins' = [logins EXCEPT ![c] = [pc |-> "lookup", pin |-> pin, calls |-> <<>>]]
    /\ UNCHANGED <<loginForm, pin, lastToast, authLoading, session, user, profile,
                   storedSession, authInitPending, profileFetches, logoutPending, lastLogin,
                   backendVars>>
    /\ UNCHANGED LoginRest

\* login() resolves with result and handleLogin goes on (Login 27-40)
LoginReturns(c, log, result) ==
    /\ logins' = [logins EXCEPT ![c] = IdleLogin]
    /\ lastLogin' = [pin |-> logins[c].pin, calls |-> log, result |-> result,
                     resolved |-> TRUE]
    /\ lastToast' = IF result THEN "Welcome!" ELSE "Login Failed"

\* login() resolves false: setError and the failure toast; the session is
\* left as it is
LoginReturnsFalse(c, log) ==
    /\ LoginReturns(c, log, FALSE)
    /\ formError' = IF FormMounted THEN "Invalid PIN. Please try again." ELSE formError
    /\ UNCHANGED <<loginForm, pin, authLoading, session, user, profile, storedSession,
                   authInitPending, profileFetches, logoutPending>>

\* signInWithPassword succeeded for identity uid: the client keeps the session,
\* the listener runs, <Login /> is replaced by the application, and login()
\* resolves true
LoginReturnsTrue(c, log, uid) ==
    /\ LoginReturns(c, log, TRUE)
    /\ storedSession' = uid
    /\ AuthStateChange(uid)
    /\ pin' = <<>>
    /\ formError' = ""
    /\ UNCHANGED <<loginForm, authInitPending, logoutPending>>

\* login() rejects and handleLogin runs its catch (Login 41-49): the error
\* text, the toast titled "Error"; the session is left as it is
LoginRejects(c, log) ==
    /\ logins' = [logins EXCEPT ![c] = IdleLogin]
    /\ lastLogin' = [pin |-> logins[c].pin, calls |-> log, result |-> FALSE,
                     resolved |-> FALSE]
    /\ lastToast' = "Error"
    /\ formError' = IF FormMounted
                    THEN "An error occurred during login. Please try again."
                    ELSE formError
    /\ UNCHANGED <<loginForm, pin, authLoading, session, user, profile, storedSession,
                   authInitPending, profileFetches, logoutPending>>

\* the row the lookup of pin p returns: .eq('pin', p).single() needs exactly one
LookupRet(p, outcome) ==
    IF outcome # "ok" THEN outcome
    ELSE IF Cardinality(RowsWithPin(p)) = 1 THEN "ok" ELSE "norow"

\* the mutant: a lookup without a row is taken for an unlinked profile
LoginLookup_NoRowGoesOn(c, outcome) ==
    /\ logins[c].pc = "lookup"
    /\ LET ret == LookupRet(logins[c].pin, outcome)
           uid == IF ret = "ok" THEN LinkedUser(logins[c].pin) ELSE NoUser
           log == Append(logins[c].calls, LoginCall("lookup", ret, uid, <<>>, <<>>))
       IN  IF ret \in {"error", "throw"}
           THEN LoginReturnsFalse(c, log)
           ELSE /\ logins' = [logins EXCEPT ![c].calls = log,
                        ![c].pc = IF uid # NoUser THEN "signInDirect" ELSE "rpc"]
                /\ UNCHANGED <<lastLogin, formVars, authLoading, session, user, profile,
                               storedSession, authInitPending, profileFetches, logoutPending>>
    /\ UNCHANGED backendVars
    /\ UNCHANGED LoginRest

\* AuthContext 83-101, 118-123: the profile lookup returns; false when it
\* failed or found no row, otherwise the direct sign-in or the rpc is sent
LoginLookup(c, outcome) ==
    /\ logins[c].pc = "lookup"
    /\ LET ret == LookupRet(logins[c].pin, outcome)
           uid == IF ret = "ok" THEN LinkedUser(logins[c].pin) ELSE NoUser
           log == Append(logins[c].calls, LoginCall("lookup", ret, uid, <<>>, <<>>))
       IN  IF ret # "ok"
           THEN LoginReturnsFalse(c, log)
           ELSE /\ logins' = [logins EXCEPT ![c].calls = log,
                        ![c].pc = IF uid # NoUser THEN "signInDirect" ELSE "rpc"]
                /\ UNCHANGED <<lastLogin, formVars, authLoading, session, user, profile,
                               storedSession, authInitPending, profileFetches, logoutPending>>
    /\ UNCHANGED backendVars
    /\ UNCHANGED LoginRest

\* the identity signInWithPassword({email, password}) signs in
SignInUser(email, password) ==
    IF \E u \in authUsers : u.email = email /\ u.password = password
    THEN (CHOOSE u \in authUsers : u.email = email /\ u.password = password).id
    ELSE NoUser

\* the mutant: an exception of signInWithPassword leaves login() uncaught
LoginSignIn_Rethrows(c, outcome, email) ==
    LET uid == SignInUser(email, logins[c].pin)
        ret == IF outcome = "ok" /\ uid = NoUser THEN "error" ELSE outcome
        log == Append(logins[c].calls,
                      LoginCall("signIn", ret, IF ret = "ok" THEN uid ELSE NoUser,
                                email, logins[c].pin))
    IN  /\ CASE ret = "ok" -> LoginReturnsTrue(c, log, uid)
              [] ret = "throw" -> LoginRejects(c, log)
              [] OTHER -> LoginReturnsFalse(c, log)
        /\ UNCHANGED backendVars
        /\ UNCHANGED LoginRest

\* signInWithPassword returns (AuthContext 104-116, 134-150): true when it
\* signed in, false when it returned an error or threw (the catch of login)
LoginSignIn(c, outcome, email) ==
    LET uid == SignInUser(email, logins[c].pin)
        ret == IF outcome = "ok" /\ uid = NoUser THEN "error" ELSE outcome
        log == Append(logins[c].calls,
                      LoginCall("signIn", ret, IF ret = "ok" THEN uid ELSE NoUser,
                                email, logins[c].pin))
    IN  /\ IF ret = "ok" THEN LoginReturnsTrue(c, log, uid) ELSE LoginReturnsFalse(c, log)
        /\ UNCHANGED backendVars
        /\ UNCHANGED LoginRest

\* AuthContext 102-116: the profile has a user_id
LoginSignInDirect(c, outcome) ==
    /\ logins[c].pc = "signInDirect"
    /\ LoginSignIn(c, outcome, LoginEmailDirect(logins[c].pin))

\* the mutant: a sign-in that returned an error is sent once more
LoginSignInAfter_Retries(c, outcome) ==
    /\ logins[c].pc = "signInAfter"
    /\ IF outcome = "error" /\ Len(logins[c].calls) < 3
       THEN /\ logins' = [logins EXCEPT ![c].calls =
                    Append(@, LoginCall("signIn", "error", NoUser,
                                        LoginEmailAfter(logins[c].pin), logins[c].pin))]
            /\ UNCHANGED <<lastLogin, formVars, authLoading, session, user, profile,
                           storedSession, authInitPending, profileFetches, logoutPending,
                           backendVars>>
            /\ UNCHANGED LoginRest
       ELSE LoginSignIn(c, outcome, LoginEmailAfter(logins[c].pin))

\* AuthContext 133-145: after the identity was created
LoginSignInAfter(c, outcome) ==
    /\ logins[c].pc = "signInAfter"
    /\ LoginSignIn(c, outcome, LoginEmailAfter(logins[c].pin))

\* create_auth_user_for_pin(pin_value) on the database: the identity of the
\* PIN's synthetic email is created unless it exists, and the rows of the PIN
\* are linked to it
RpcCreateAuthUser(p) ==
    LET email == FnEmail(p)
        old == {u \in authUsers : u.email = email}
        uid == IF old = {} THEN nextUid ELSE (CHOOSE u \in old : TRUE).id
    IN  /\ authUsers' = IF old = {}
                        THEN authUsers \cup {[id |-> uid, email |-> email, password |-> p]}
                        ELSE authUsers
        /\ nextUid' = IF old = {} THEN nextUid + 1 ELSE nextUid
        /\ profiles' = [i \in DOMAIN profiles |->
                            IF profiles[i].pin = p
                            THEN [profiles[i] EXCEPT !.user_id = uid]
                            ELSE profiles[i]]

\* the mutant: functionError is not looked at
LoginRpc_IgnoreError(c, outcome) ==
    /\ logins[c].pc = "rpc"
    /\ LET log == Append(logins[c].calls,
                         LoginCall("rpc", outcome, NoUser, <<>>, <<>>))
       IN  /\ IF outcome = "throw"
              THEN LoginReturnsFalse(c, log)
              ELSE /\ logins' = [logins EXCEPT ![c].calls = log, ![c].pc = "signInAfter"]
                   /\ UNCHANGED <<lastLogin, formVars, authLoading, session, user, profile,
                                  storedSession, authInitPending, profileFetches, logoutPending>>
           /\ IF outcome = "ok" THEN RpcCreateAuthUser(logins[c].pin)
              ELSE UNCHANGED backendVars
    /\ UNCHANGED LoginRest

\* AuthContext 118-131: supabase.rpc('create_auth_user_for_pin') returns; false
\* when it failed, otherwise the sign-in is sent
LoginRpc(c, outcome) ==
    /\ logins[c].pc = "rpc"
    /\ LET log == Append(logins[c].calls,
                         LoginCall("rpc", outcome, NoUser, <<>>, <<>>))
       IN  /\ IF outcome # "ok"
              THEN LoginReturnsFalse(c, log)
              ELSE /\ logins' = [logins EXCEPT ![c].calls = log, ![c].pc = "signInAfter"]
                   /\ UNCHANGED <<lastLogin, formVars, authLoading, session, user, profile,
                                  storedSession, authInitPending, profileFetches, logoutPending>>
           /\ IF outcome = "ok" THEN RpcCreateAuthUser(logins[c].pin)
              ELSE UNCHANGED backendVars
    /\ UNCHANGED LoginRest

(***************************************************************************)
(* The projects and accounts tables as the forms see them                  *)
(***************************************************************************)

MaxProjects == 1        \* projects the Projects view inserts

NoProject == 0          \* project_id '' (no project chosen)
NoAccount == 0          \* account_id '' (no account chosen)

\* accounts table: id -> name
AccountNames == << <<"A", "c">> >>
AccountIds == DOMAIN AccountNames

\* the project the table holds at the start
FirstProject ==
    [id |-> 1, name |-> <<"B", "i", "d">>, account_id |-> 1, status |-> "Closed Won"]

ProjectIds == {q.id : q \in dbProjects}

ProjInit ==
    /\ dbProjects = {FirstProject}
    /\ nextProjectId = 2

(***************************************************************************)
(* CreateUpdateModal (components/modals/CreateUpdateModal, two versions of *)
(* handleSubmit)                                                           *)
(***************************************************************************)

MaxUpdates == 1         \* rows the updates table takes
MaxUpdFetches == 1      \* fetchProjects() calls of the modal in flight

\* new Date().toISOString().split('T')[0]
Today == "today"

\* SelectItem values of the type field the model chooses among (of general,
\* call, meeting, email)
UpdTypes == {"general", "meeting"}

\* values the content Textarea is changed to
UpdContents == {"", "note"}

\* useState({project_id: preselectedProjectId || '', content: '', type: 'general', date})
UpdBlankForm(preselected) ==
    [project_id |-> preselected, content |-> "", type |-> "general", date |-> Today]

NoInsert == [active |-> FALSE, row |-> <<>>, preselected |-> NoProject]

\* the parent opens or closes the dialog; useEffect([open]) fetches the
\* projects when it opens (CreateUpdateModal 44-48)
UpdOpenChange(b) ==
    /\ AppMounted
    /\ b # updOpen
    /\ b => updFetches < MaxUpdFetches
    /\ updOpen' = b
    /\ updFetches' = IF b THEN updFetches + 1 ELSE updFetches
    /\ UNCHANGED <<updVariant, updPreselected, updForm, updProjects, updLoading,
                   updInsert, updToast, dbUpdates>>
    /\ UNCHANGED UpdRest

\* ProjectsView.handleCreateUpdate(projectId) (ProjectsView 302-305): the
\* parent sets preselectedProjectId and opens the dialog;
\* useEffect([preselectedProjectId]) copies a truthy id into the form
\* (CreateUpdateModal 50-54)
UpdOpenFor(q) ==
    /\ AppMounted
    /\ ~updOpen
    /\ updFetches < MaxUpdFetches
    /\ updPreselected' = q
    /\ updForm' = IF q # NoProject /\ q # updPreselected
                  THEN [updForm EXCEPT !.project_id = q]
                  ELSE updForm
    /\ updOpen' = TRUE
    /\ updFetches' = updFetches + 1
    /\ UNCHANGED <<updVariant, updProjects, updLoading, updInsert, updToast, dbUpdates>>
    /\ UNCHANGED UpdRest

\* the modal's fetchProjects() returns (CreateUpdateModal 56-77)
UpdFetchProjects(outcome) ==
    /\ updFetches > 0
    /\ updFetches' = updFetches - 1
    /\ IF outcome = "ok"
       THEN updProjects' = ProjectIds /\ UNCHANGED updToast
       ELSE updToast' = "Failed to load projects" /\ UNCHANGED updProjects
    /\ UNCHANGED <<updVariant, updOpen, updPreselected, updForm, updLoading, updInsert,
                   dbUpdates>>
    /\ UNCHANGED UpdRest

\* the values a field of the form can be changed to: the project Select
\* offers the fetched projects (CreateUpdateModal 150-195)
UpdFieldValues(field) ==
    CASE field = "project_id" -> updProjects
      [] field = "content" -> UpdContents
      [] field = "type" -> UpdTypes

\* a field of the form changes
UpdChange(field, value) ==
    /\ AppMounted
    /\ updOpen
    /\ value \in UpdFieldValues(field)
    /\ updForm' = [updForm EXCEPT ![field] = value]
    /\ updForm' # updForm
    /\ UNCHANGED <<updVariant, updOpen, updPreselected, updProjects, updFetches,
                   updLoading, updInsert, updToast, dbUpdates>>
    /\ UNCHANGED UpdRest

\* the mutant: the project and the content are not looked at
UpdSubmitToast_NoFieldCheck(variant, form, prof) ==
    IF prof = NoUser
    THEN (IF variant = "split" THEN "User profile not found"
          ELSE "Project, content, and user profile are required")
    ELSE ""

\* the checks handleSubmit starts with: the description of the error toast,
\* "" when the submit goes on. split: CreateUpdateModal 81-97; joint:
\* part_006 472-479
UpdSubmitToast(variant, form, prof) ==
    IF variant = "split"
    THEN (IF form.project_id = NoProject \/ form.content = ""
          THEN "Project and content are required"
          ELSE IF prof = NoUser THEN "User profile not found" ELSE "")
    ELSE (IF form.project_id = NoProject \/ form.content = "" \/ prof = NoUser
          THEN "Project, content, and user profile are required"
          ELSE "")

\* updateData = {...formData, created_by: profile.id} (CreateUpdateModal
\* 101-104, part_006 488-494)
UpdateData(form, prof) ==
    [project_id |-> form.project_id, content |-> form.content, type |-> form.type,
     date |-> form.date, created_by |-> prof]

\* the form is submitted (the button is disabled={loading}) and handleSubmit
\* runs up to the await of the insert
UpdSubmit ==
    /\ AppMounted
    /\ updOpen
    /\ ~updLoading
    /\ LET t == UpdSubmitToast(updVariant, updForm, profile)
       IN  IF t # ""
           THEN updToast' = t /\ UNCHANGED <<updLoading, updInsert>>
           ELSE /\ updLoading' = TRUE
                /\ updInsert' = [active |-> TRUE, row |-> UpdateData(updForm, profile),
                                 preselected |-> updPreselected]
                /\ UNCHANGED updToast
    /\ UNCHANGED <<updVariant, updOpen, updPreselected, updForm, updProjects, updFetches,
                   dbUpdates>>
    /\ UNCHANGED UpdRest

\* how the insert of row ends: the row needs its project and its author
InsertRet(row, outcome) ==
    IF outcome = "ok" /\ (row.project_id \notin ProjectIds
                          \/ row.created_by \notin DOMAIN profiles)
    THEN "error"
    ELSE outcome

\* what handleSubmit calls after the insert, in order (CreateUpdateModal
\* 106-134, part_006 497-529)
UpdAfterInsert(ret) ==
    IF ret = "ok"
    THEN <<"toast", "setFormData", "onOpenChange", "onUpdateCreated", "setLoading">>
    ELSE <<"toast", "setLoading">>

\* the insert returns and handleSubmit goes on (CreateUpdateModal 106-134):
\* success toast, form reset, onOpenChange(false), onUpdateCreated(); an
\* error is thrown into the catch; finally setLoading(false)
UpdInsertReturns(outcome) ==
    /\ updInsert.active
    /\ outcome = "ok" => Len(dbUpdates) < MaxUpdates
    /\ updInsert' = NoInsert
    /\ updLoading' = FALSE
    /\ IF InsertRet(updInsert.row, outcome) = "ok"
       THEN /\ dbUpdates' = Append(dbUpdates, updInsert.row)
            /\ updToast' = "Update created successfully"
            /\ updForm' = UpdBlankForm(updInsert.preselected)
            /\ updOpen' = FALSE
       ELSE /\ updToast' = IF updVariant = "split" THEN "Failed to create update"
                           ELSE "Failed to create update. Please check the console for details."
            /\ UNCHANGED <<dbUpdates, updForm, updOpen>>
    /\ UNCHANGED <<updVariant, updPreselected, updProjects, updFetches>>
    /\ submitTrace' = UpdAfterInsert(InsertRet(updInsert.row, outcome))
    /\ UNCHANGED UpdOthers

(***************************************************************************)
(* ProjectsView (components/ProjectsView, the version with the modals) and *)
(* CreateProjectModal (components/modals/CreateProjectModal)               *)
(***************************************************************************)

NFetch == 1             \* fetchProjects() calls in flight at once
NDelete == 1            \* handleDeleteProject calls in flight at once

UpperChars == <<"A", "B", "C", "D">>
LowerChars == <<"a", "b", "c", "d">>

\* s.toLowerCase()
ToLowerCase(s) ==
    [k \in 1..Len(s) |->
        IF \E u \in DOMAIN UpperChars : UpperChars[u] = s[k]
        THEN LowerChars[CHOOSE u \in DOMAIN UpperChars : UpperChars[u] = s[k]]
        ELSE s[k]]

\* s.includes(t)
Includes(s, t) ==
    \E i \in 1..(Len(s) - Len(t) + 1) : SubSeq(s, i, i + Len(t) - 1) = t

\* .order('created_at', { ascending: false }): ids grow with the time of
\* creation
RECURSIVE OrderByCreatedDesc(_)
OrderByCreatedDesc(rows) ==
    IF rows = {} THEN <<>>
    ELSE LET last == CHOOSE q \in rows : \A r \in rows : r.id <= q.id
         IN  <<last>> \o OrderByCreatedDesc(rows \ {last})

\* ProjectsView 313-314
MatchesSearch(q, term) ==
    \/ Includes(ToLowerCase(q.name), ToLowerCase(term))
    \/ Includes(ToLowerCase(AccountNames[q.account_id]), ToLowerCase(term))

\* ProjectsView 315
MatchesStatus(q, filter) == filter = "all" \/ q.status = filter

\* filteredProjects (ProjectsView 312-317)
FilteredProjects ==
    SelectSeq(pvProjects,
              LAMBDA q : MatchesSearch(q, pvSearchTerm) /\ MatchesStatus(q, pvStatusFilter))

\* the ids of the project cards rendered
DisplayedIds == {FilteredProjects[k].id : k \in 1..Len(FilteredProjects)}

\* values the search box is changed to
SearchInputs == {<<>>, <<"B">>}

\* values the status filter is changed to (of all and the five statuses)
StatusFilterInputs == {"all", "Closed Won"}

\* values the name field of the modal is changed to
ProjNameInputs == {<<>>, <<"a", "d">>}

\* useState({name: '', account_id: preselectedAccountId || '', status: 'Need Analysis', ...})
CpBlankForm == [name |-> <<>>, account_id |-> NoAccount, status |-> "Need Analysis"]

NoProjInsert == [active |-> FALSE, row |-> <<>>]

\* one fetchProjects() call in flight. stage: "sent" until the database has
\* answered, then "served"; after: the project whose creation made the call
\* (NoProject for the call on mount and the call after a delete)
SentFetch(after) == [stage |-> "sent", ret |-> "none", data |-> <<>>, after |-> after]

\* bag with one more copy of e, and with one copy less
BagAdd(b, e) == b (+) SetToBag({e})
BagRemove(b, e) == b (-) SetToBag({e})

\* the database answers the select of fetchProjects (ProjectsView 251-257)
PvFetchServe(f, outcome) ==
    /\ BagIn(f, pvFetches)
    /\ f.stage = "sent"
    /\ pvFetches' = BagAdd(BagRemove(pvFetches, f),
                           [f EXCEPT !.stage = "served",
                                     !.ret = IF outcome = "ok" THEN "ok" ELSE "error",
                                     !.data = IF outcome = "ok"
                                              THEN OrderByCreatedDesc(dbProjects)
                                              ELSE <<>>])
    /\ UNCHANGED <<pvProjects, pvLoading, pvSearchTerm, pvStatusFilter, pvCreateOpen,
                   pvDeletes, pvToast, cpVars, projVars>>
    /\ UNCHANGED ProjRest

\* fetchProjects goes on after its await (ProjectsView 259-270):
\* setProjects(data), or the error toast; finally setLoading(false)
PvFetchSettle(f) ==
    /\ BagIn(f, pvFetches)
    /\ f.stage = "served"
    /\ pvFetches' = BagRemove(pvFetches, f)
    /\ IF f.ret = "ok"
       THEN pvProjects' = f.data /\ UNCHANGED pvToast
       ELSE pvToast' = "Failed to load projects" /\ UNCHANGED pvProjects
    /\ pvLoading' = FALSE
    /\ UNCHANGED <<pvSearchTerm, pvStatusFilter, pvCreateOpen, pvDeletes, cpVars, projVars>>
    /\ UNCHANGED ProjRest

\* the search box changes (ProjectsView 361-366); while loading the view
\* renders placeholders only
PvSetSearch(term) ==
    /\ ~pvLoading
    /\ term # pvSearchTerm
    /\ pvSearchTerm' = term
    /\ UNCHANGED <<pvProjects, pvLoading, pvStatusFilter, pvCreateOpen, pvFetches,
                   pvDeletes, pvToast, cpVars, projVars>>
    /\ UNCHANGED ProjRest

\* the status filter changes (ProjectsView 368-380)
PvSetStatusFilter(filter) ==
    /\ ~pvLoading
    /\ filter # pvStatusFilter
    /\ pvStatusFilter' = filter
    /\ UNCHANGED <<pvProjects, pvLoading, pvSearchTerm, pvCreateOpen, pvFetches,
                   pvDeletes, pvToast, cpVars, projVars>>
    /\ UNCHANGED ProjRest

\* New Project / Create Project (ProjectsView 381-387, 469-477):
\* setCreateProjectModalOpen(true); the modal's useEffect([open]) calls
\* fetchAccounts() (CreateProjectModal 345-369), taken here together with its
\* return: the options are the accounts fetched; an error is only logged
PvOpenCreate(outcome) ==
    /\ ~pvLoading
    /\ ~pvCreateOpen
    /\ pvCreateOpen' = TRUE
    /\ cpAccounts' = IF outcome = "ok" THEN AccountIds ELSE cpAccounts
    /\ UNCHANGED <<pvProjects, pvLoading, pvSearchTerm, pvStatusFilter, pvFetches,
                   pvDeletes, pvToast, cpForm, cpLoading, cpInsert, projVars>>
    /\ UNCHANGED ProjRest

\* Cancel, or the dialog is dismissed: onOpenChange(false)
CpClose ==
    /\ pvCreateOpen
    /\ pvCreateOpen' = FALSE
    /\ UNCHANGED <<pvProjects, pvLoading, pvSearchTerm, pvStatusFilter, pvFetches,
                   pvDeletes, pvToast, cpVars, projVars>>
    /\ UNCHANGED ProjRest

\* the values a field of the modal can be changed to: the account Select
\* offers the fetched accounts (CreateProjectModal 446-471); the status and
\* the optional fields are left as they start
CpFieldValues(field) ==
    CASE field = "name" -> ProjNameInputs
      [] field = "account_id" -> cpAccounts

\* a field of the modal changes
CpChange(field, value) ==
    /\ pvCreateOpen
    /\ value \in CpFieldValues(field)
    /\ cpForm' = [cpForm EXCEPT ![field] = value]
    /\ cpForm' # cpForm
    /\ UNCHANGED <<cpAccounts, cpLoading, cpInsert, pvVars, projVars>>
    /\ UNCHANGED ProjRest

\* projectData (CreateProjectModal 386-394); the optional fields are left
\* empty and go as null
ProjectData(form) ==
    [name |-> form.name, account_id |-> form.account_id, status |-> form.status]

\* the mutant: only the name is required
CpSubmit_NameOnly ==
    /\ pvCreateOpen
    /\ ~cpLoading
    /\ IF cpForm.name = <<>>
       THEN /\ pvToast' = "Project name and account are required"
            /\ UNCHANGED <<cpLoading, cpInsert>>
       ELSE /\ cpLoading' = TRUE
            /\ cpInsert' = [active |-> TRUE, row |-> ProjectData(cpForm)]
            /\ UNCHANGED pvToast
    /\ UNCHANGED <<cpForm, cpAccounts, pvProjects, pvLoading, pvSearchTerm,
                   pvStatusFilter, pvCreateOpen, pvFetches, pvDeletes, projVars>>
    /\ UNCHANGED ProjRest

\* the modal is submitted (the button is disabled={loading}) and handleSubmit
\* runs up to the await of the insert (CreateProjectModal 371-399)
CpSubmit ==
    /\ pvCreateOpen
    /\ ~cpLoading
    /\ IF cpForm.name = <<>> \/ cpForm.account_id = NoAccount
       THEN /\ pvToast' = "Project name and account are required"
            /\ UNCHANGED <<cpLoading, cpInsert>>
       ELSE /\ cpLoading' = TRUE
            /\ cpInsert' = [active |-> TRUE, row |-> ProjectData(cpForm)]
            /\ UNCHANGED pvToast
    /\ UNCHANGED <<cpForm, cpAccounts, pvProjects, pvLoading, pvSearchTerm,
                   pvStatusFilter, pvCreateOpen, pvFetches, pvDeletes, projVars>>
    /\ UNCHANGED ProjRest

\* how .insert([projectData]).select() ends: the row needs an account of the
\* accounts table
ProjInsertRet(row, outcome) ==
    IF outcome = "ok" /\ row.account_id \notin AccountIds THEN "error" ELSE outcome

\* the row the database stores for projectData
ProjectRow(row, id) ==
    [id |-> id, name |-> row.name, account_id |-> row.account_id, status |-> row.status]

\* what handleSubmit calls after the insert, in order (CreateProjectModal
\* 401-433)
CpAfterInsert(ret) ==
    IF ret = "ok"
    THEN <<"toast", "setFormData", "onOpenChange", "onProjectCreated", "setLoading">>
    ELSE <<"toast", "setLoading">>

\* the mutant: onProjectCreated() is not called
CpInsertReturns_NoCallback(outcome) ==
    /\ cpInsert.active
    /\ outcome = "ok" => (nextProjectId <= MaxProjects /\ BagCardinality(pvFetches) < NFetch)
    /\ cpInsert' = NoProjInsert
    /\ cpLoading' = FALSE
    /\ IF ProjInsertRet(cpInsert.row, outcome) = "ok"
       THEN /\ dbProjects' = dbProjects \cup {ProjectRow(cpInsert.row, nextProjectId)}
            /\ nextProjectId' = nextProjectId + 1
            /\ pvToast' = "Project created successfully"
            /\ cpForm' = CpBlankForm
            /\ pvCreateOpen' = FALSE
       ELSE /\ pvToast' = "Failed to create project. Please check the console for details."
            /\ UNCHANGED <<cpForm, pvCreateOpen, projVars>>
    /\ UNCHANGED <<cpAccounts, pvProjects, pvLoading, pvSearchTerm,
                   pvStatusFilter, pvFetches, pvDeletes>>
    /\ submitTrace' = CpAfterInsert(ProjInsertRet(cpInsert.row, outcome))
    /\ UNCHANGED ProjOthers

\* the insert returns and handleSubmit goes on (CreateProjectModal 396-433):
\* the row is stored under the next id; success toast, form reset,
\* onOpenChange(false) and onProjectCreated(), which is the view's
\* fetchProjects (ProjectsView 482-486); an error is thrown into the catch;
\* finally setLoading(false)
CpInsertReturns(outcome) ==
    /\ cpInsert.active
    /\ outcome = "ok" => (nextProjectId <= MaxProjects /\ BagCardinality(pvFetches) < NFetch)
    /\ cpInsert' = NoProjInsert
    /\ cpLoading' = FALSE
    /\ IF ProjInsertRet(cpInsert.row, outcome) = "ok"
       THEN /\ dbProjects' = dbProjects \cup {ProjectRow(cpInsert.row, nextProjectId)}
            /\ nextProjectId' = nextProjectId + 1
            /\ pvToast' = "Project created successfully"
            /\ cpForm' = CpBlankForm
            /\ pvCreateOpen' = FALSE
            /\ pvFetches' = BagAdd(pvFetches, SentFetch(nextProjectId))
       ELSE /\ pvToast' = "Failed to create project. Please check the console for details."
            /\ UNCHANGED <<cpForm, pvCreateOpen, pvFetches, projVars>>
    /\ UNCHANGED <<cpAccounts, pvProjects, pvLoading, pvSearchTerm,
                   pvStatusFilter, pvDeletes>>
    /\ submitTrace' = CpAfterInsert(ProjInsertRet(cpInsert.row, outcome))
    /\ UNCHANGED ProjOthers

\* the delete button of a card, confirmed: handleDeleteProject runs up to the
\* await of the delete (ProjectsView 273-282)
PvDelete(q) ==
    /\ ~pvLoading
    /\ q \in DisplayedIds
    /\ BagCardinality(pvDeletes) < NDelete
    /\ pvDeletes' = BagAdd(pvDeletes, q)
    /\ UNCHANGED <<pvProjects, pvLoading, pvSearchTerm, pvStatusFilter, pvCreateOpen,
                   pvFetches, pvToast, cpVars, projVars>>
    /\ UNCHANGED ProjRest

\* .delete().eq('id', q) returns and handleDeleteProject goes on
\* (ProjectsView 279-299): the row is gone; the success toast and
\* fetchProjects(), or the error toast
PvDeleteReturns(q, outcome) ==
    /\ BagIn(q, pvDeletes)
    /\ outcome = "ok" => BagCardinality(pvFetches) < NFetch
    /\ pvDeletes' = BagRemove(pvDeletes, q)
    /\ IF outcome = "ok"
       THEN /\ dbProjects' = {r \in dbProjects : r.id # q}
            /\ pvToast' = "Project deleted successfully"
            /\ pvFetches' = BagAdd(pvFetches, SentFetch(NoProject))
       ELSE /\ pvToast' = "Failed to delete project"
            /\ UNCHANGED <<pvFetches, dbProjects>>
    /\ UNCHANGED <<nextProjectId, pvProjects, pvLoading, pvSearchTerm, pvStatusFilter,
                   pvCreateOpen, cpVars>>
    /\ UNCHANGED ProjRest

(***************************************************************************)
(* The data-loading views: ClientOverview, UserUpdateFrequency,            *)
(* DashboardView, UpdatesView, AccountsView, AccountDetailModal,           *)
(* ProjectDetailModal and UserActivityCard. Each is mounted on its own.    *)
(***************************************************************************)

MaxViewCalls == 2       \* calls of a view's functions in flight at once

\* "Accounts" follows AccountsView through its cards, "CreateAccount"
\* through its CreateAccountModal
ViewKinds ==
    {"ClientOverview", "UserUpdateFrequency", "Dashboard", "Updates", "Accounts",
     "CreateAccount", "AccountDetail", "ProjectDetail", "UserActivity"}

AccountsViewKinds == {"Accounts", "CreateAccount"}

\* ids of the rows of the updates table
UpdateIds == 1..Len(dbUpdates)

\* 'all' of UserActivityCard's user filter
AllUsers == 0

\* one call of an async function of a view, parked at an await. step: which
\* await; rets: how each request awaited there ended ("none": no answer yet);
\* data: the rows each returned; kept: rows of an earlier await the call
\* still uses; arg: the id the call is about
SentCall(fn, arg, keys) ==
    [fn |-> fn, arg |-> arg, step |-> 1, kept |-> {},
     rets |-> [k \in keys |-> "none"], data |-> [k \in keys |-> {}]]

\* the awaited promise has settled: every request is answered, or one threw
\* (Promise.all rejects with the first rejection)
Ready(f) ==
    \/ \A k \in DOMAIN f.rets : f.rets[k] # "none"
    \/ \E k \in DOMAIN f.rets : f.rets[k] = "throw"

Rejected(f) == \E k \in DOMAIN f.rets : f.rets[k] = "throw"
ErrorReturned(f) == \E k \in DOMAIN f.rets : f.rets[k] = "error"

\* the rows request k of the call answers with, from the tables as they are
RequestRows(f, k) ==
    CASE f.fn = "fetchClientData" -> dbAccounts
      [] f.fn = "fetchUserFrequency" -> UpdateIds
      [] f.fn = "fetchDashboardData" ->
            (IF k = 1 THEN dbAccounts ELSE IF k = 2 THEN ProjectIds ELSE UpdateIds)
      [] f.fn = "fetchUpdates" -> UpdateIds
      [] f.fn = "fetchAccounts" ->
            (IF f.step = 1 THEN dbAccounts
             ELSE {q.id : q \in {p \in dbProjects : p.account_id = k}})
      [] f.fn = "handleDeleteAccount" -> {}
      [] f.fn = "fetchAccountDetails" ->
            (IF f.step = 1 THEN dbAccounts \cap {f.arg}
             ELSE IF f.step = 2
             THEN {q.id : q \in {p \in dbProjects : p.account_id = f.arg}}
             ELSE {u \in UpdateIds : dbUpdates[u].project_id \in f.kept})
      [] f.fn = "fetchProjectDetails" ->
            (IF f.step = 1 THEN ProjectIds \cap {f.arg}
             ELSE {u \in UpdateIds : dbUpdates[u].project_id = f.arg})
      [] f.fn = "fetchUsers" -> DOMAIN profiles
      [] f.fn = "fetchUserActivity" ->
            {u \in UpdateIds : f.arg = AllUsers \/ dbUpdates[u].created_by = f.arg}

\* .single(): an error unless exactly one row matches
IsSingle(f) ==
    f.fn \in {"fetchAccountDetails", "fetchProjectDetails"} /\ f.step = 1

\* the database answers request k of the call f; .delete() removes the row
ViewServe(f, k, outcome) ==
    /\ BagIn(f, vwCalls)
    /\ k \in DOMAIN f.rets
    /\ f.rets[k] = "none"
    /\ ~Rejected(f)
    /\ LET rows == RequestRows(f, k)
           ret == IF outcome = "ok" /\ IsSingle(f) /\ Cardinality(rows) # 1
                  THEN "error" ELSE outcome
       IN  vwCalls' = BagAdd(BagRemove(vwCalls, f),
                             [f EXCEPT !.rets[k] = ret,
                                       !.data[k] = IF ret = "ok" THEN rows ELSE {}])
    /\ dbAccounts' = IF f.fn = "handleDeleteAccount" /\ outcome = "ok"
                     THEN dbAccounts \ {f.arg} ELSE dbAccounts
    /\ UNCHANGED <<vwKind, vwLoading, vwData, vwToast, vwOpen, vwSelected>>
    /\ UNCHANGED ViewRest

\* a call goes on to its next await, or ends
CallAwaits(f, keys, kept) ==
    vwCalls' = BagAdd(BagRemove(vwCalls, f),
                      [f EXCEPT !.step = f.step + 1, !.kept = kept,
                                !.rets = [k \in keys |-> "none"],
                                !.data = [k \in keys |-> {}]])
CallEnds(f) == vwCalls' = BagRemove(vwCalls, f)

\* a new call of fn is made from an event handler when the bound allows
CallStarts(fn, arg, keys) ==
    /\ BagCardinality(vwCalls) < MaxViewCalls
    /\ vwCalls' = BagAdd(vwCalls, SentCall(fn, arg, keys))

\* the catch-and-finally shape the fetch functions share: with a thrown or
\* returned error the toast (when the function has one) else setData; then
\* setLoading(false)
FetchSettles(f, fn, slot, errorToast) ==
    /\ BagIn(f, vwCalls)
    /\ f.fn = fn
    /\ Ready(f)
    /\ CallEnds(f)
    /\ IF Rejected(f) \/ ErrorReturned(f)
       THEN /\ vwToast' = IF errorToast = "" THEN vwToast ELSE errorToast
            /\ UNCHANGED vwData
       ELSE /\ vwData' = [vwData EXCEPT ![slot] = f.data[1]]
            /\ UNCHANGED vwToast

\* ClientOverview.fetchClientData goes on after its await (43-98): the error
\* is only logged
CoFetchClientDataSettle(f) ==
    /\ vwKind = "ClientOverview"
    /\ FetchSettles(f, "fetchClientData", "clients", "")
    /\ vwLoading' = FALSE
    /\ UNCHANGED <<vwKind, vwOpen, vwSelected, dbAccounts>>
    /\ UNCHANGED ViewRest

\* UserUpdateFrequency.fetchUserFrequency goes on after its await (23-63):
\* the error is only logged
UfFetchUserFrequencySettle(f) ==
    /\ vwKind = "UserUpdateFrequency"
    /\ FetchSettles(f, "fetchUserFrequency", "frequencyData", "")
    /\ vwLoading' = FALSE
    /\ UNCHANGED <<vwKind, vwOpen, vwSelected, dbAccounts>>
    /\ UNCHANGED ViewRest

\* DashboardView.fetchDashboardData goes on after Promise.all (99-158)
DvFetchDashboardDataSettle(f) ==
    /\ vwKind = "Dashboard"
    /\ BagIn(f, vwCalls)
    /\ f.fn = "fetchDashboardData"
    /\ Ready(f)
    /\ CallEnds(f)
    /\ IF Rejected(f) \/ ErrorReturned(f)
       THEN /\ vwToast' = "Failed to load dashboard data"
            /\ UNCHANGED vwData
       ELSE /\ vwData' = [vwData EXCEPT !["accounts"] = f.data[1],
                                        !["projects"] = f.data[2],
                                        !["recentActivity"] = f.data[3]]
            /\ UNCHANGED vwToast
    /\ vwLoading' = FALSE
    /\ UNCHANGED <<vwKind, vwOpen, vwSelected, dbAccounts>>
    /\ UNCHANGED ViewRest

\* the Refresh button (DashboardView 267-273), rendered when not loading:
\* fetchDashboardData() up to its await
DvRefresh ==
    /\ vwKind = "Dashboard"
    /\ ~vwLoading
    /\ CallStarts("fetchDashboardData", 0, {1, 2, 3})
    /\ vwLoading' = TRUE
    /\ UNCHANGED <<vwKind, vwData, vwToast, vwOpen, vwSelected, dbAccounts>>
    /\ UNCHANGED ViewRest

\* the mutant: setLoading(false) at the end of the try, not in a finally
UvFetchUpdatesSettle_NoFinally(f) ==
    /\ vwKind = "Updates"
    /\ FetchSettles(f, "fetchUpdates", "updates", "Failed to load updates")
    /\ vwLoading' = IF Rejected(f) \/ ErrorReturned(f) THEN vwLoading ELSE FALSE
    /\ UNCHANGED <<vwKind, vwOpen, vwSelected, dbAccounts>>
    /\ UNCHANGED ViewRest

\* UpdatesView.fetchUpdates goes on after its await (60-71)
UvFetchUpdatesSettle(f) ==
    /\ vwKind = "Updates"
    /\ FetchSettles(f, "fetchUpdates", "updates", "Failed to load updates")
    /\ vwLoading' = FALSE
    /\ UNCHANGED <<vwKind, vwOpen, vwSelected, dbAccounts>>
    /\ UNCHANGED ViewRest

\* onUpdateCreated={fetchUpdates} (UpdatesView 188): the modal of the view
\* has stored an update; fetchUpdates() up to its await
UvOnUpdateCreated ==
    /\ vwKind = "Updates"
    /\ CallStarts("fetchUpdates", 0, {1})
    /\ vwLoading' = TRUE
    /\ UNCHANGED <<vwKind, vwData, vwToast, vwOpen, vwSelected, dbAccounts>>
    /\ UNCHANGED ViewRest

\* AccountsView.fetchAccounts goes on after an await (159-191): after the
\* accounts select, one count request per account, all awaited together,
\* whose error is not looked at; after the counts, setAccounts
AvFetchAccountsSettle(f) ==
    /\ vwKind \in AccountsViewKinds
    /\ BagIn(f, vwCalls)
    /\ f.fn = "fetchAccounts"
    /\ Ready(f)
    /\ IF f.step = 1
       THEN IF Rejected(f) \/ ErrorReturned(f)
            THEN /\ CallEnds(f)
                 /\ vwToast' = "Failed to load accounts"
                 /\ vwLoading' = FALSE
                 /\ UNCHANGED vwData
            ELSE IF f.data[1] = {}
            THEN /\ CallEnds(f)
                 /\ vwData' = [vwData EXCEPT !["accounts"] = {}]
                 /\ vwLoading' = FALSE
                 /\ UNCHANGED vwToast
            ELSE /\ CallAwaits(f, f.data[1], f.data[1])
                 /\ UNCHANGED <<vwData, vwToast, vwLoading>>
       ELSE /\ CallEnds(f)
            /\ vwLoading' = FALSE
            /\ IF Rejected(f)
               THEN vwToast' = "Failed to load accounts" /\ UNCHANGED vwData
               ELSE vwData' = [vwData EXCEPT !["accounts"] = f.kept] /\ UNCHANGED vwToast
    /\ UNCHANGED <<vwKind, vwOpen, vwSelected, dbAccounts>>
    /\ UNCHANGED ViewRest

\* the delete button of an account card, confirmed:
\* AccountsView.handleDeleteAccount up to its await (203-212)
AvDeleteAccount(a) ==
    /\ vwKind = "Accounts"
    /\ ~vwLoading
    /\ a \in vwData["accounts"]
    /\ CallStarts("handleDeleteAccount", a, {1})
    /\ UNCHANGED <<vwKind, vwLoading, vwData, vwToast, vwOpen, vwSelected, dbAccounts>>
    /\ UNCHANGED ViewRest

\* handleDeleteAccount goes on after its await (214-230): the success toast
\* and fetchAccounts(), or the error toast
AvDeleteAccountSettle(f) ==
    /\ vwKind = "Accounts"
    /\ BagIn(f, vwCalls)
    /\ f.fn = "handleDeleteAccount"
    /\ Ready(f)
    /\ IF Rejected(f) \/ ErrorReturned(f)
       THEN /\ CallEnds(f)
            /\ vwToast' = "Failed to delete account"
       ELSE /\ vwCalls' = BagAdd(BagRemove(vwCalls, f), SentCall("fetchAccounts", 0, {1}))
            /\ vwToast' = "Account deleted successfully"
    /\ UNCHANGED <<vwKind, vwLoading, vwData, vwOpen, vwSelected, dbAccounts>>
    /\ UNCHANGED ViewRest

\* AccountsView.handleViewAccount(accountId) (198-201) opens the detail
\* modal; its useEffect([open, accountId]) calls fetchAccountDetails() when
\* open && accountId, which runs up to its first await
\* (AccountDetailModal 57-72)
AdOpen(a) ==
    /\ vwKind = "AccountDetail"
    /\ ~vwOpen
    /\ vwOpen' = TRUE
    /\ vwSelected' = a
    /\ CallStarts("fetchAccountDetails", a, {1})
    /\ vwLoading' = TRUE
    /\ UNCHANGED <<vwKind, vwData, vwToast, dbAccounts>>
    /\ UNCHANGED ViewRest

\* the dialog is dismissed: onOpenChange(false)
DetailClose ==
    /\ vwKind \in {"AccountDetail", "ProjectDetail"}
    /\ vwOpen
    /\ vwOpen' = FALSE
    /\ UNCHANGED <<vwKind, vwLoading, vwData, vwToast, vwSelected, vwCalls, dbAccounts>>
    /\ UNCHANGED ViewRest

\* AccountDetailModal.fetchAccountDetails goes on after an await (74-112):
\* setAccount, then the projects select; setProjects, then the updates select
\* when there are projects; setRecentUpdates
AdFetchAccountDetailsSettle(f) ==
    /\ vwKind = "AccountDetail"
    /\ BagIn(f, vwCalls)
    /\ f.fn = "fetchAccountDetails"
    /\ Ready(f)
    /\ IF Rejected(f) \/ ErrorReturned(f)
       THEN /\ CallEnds(f)
            /\ vwToast' = "Failed to load account details"
            /\ vwLoading' = FALSE
            /\ UNCHANGED vwData
       ELSE /\ vwData' = [vwData EXCEPT
                    ![CASE f.step = 1 -> "account" [] f.step = 2 -> "projects"
                        [] f.step = 3 -> "recentUpdates"] = f.data[1]]
            /\ UNCHANGED vwToast
            /\ IF f.step = 1 \/ (f.step = 2 /\ f.data[1] # {})
               THEN CallAwaits(f, {1}, f.data[1]) /\ UNCHANGED vwLoading
               ELSE CallEnds(f) /\ vwLoading' = FALSE
    /\ UNCHANGED <<vwKind, vwOpen, vwSelected, dbAccounts>>
    /\ UNCHANGED ViewRest

\* ProjectsView.handleViewProject(projectId) (307-310) opens the detail
\* modal; its useEffect([open, projectId]) calls fetchProjectDetails() when
\* open && projectId, which runs up to its first await
\* (ProjectDetailModal 50-67)
PdOpen(q) ==
    /\ vwKind = "ProjectDetail"
    /\ ~vwOpen
    /\ vwOpen' = TRUE
    /\ vwSelected' = q
    /\ CallStarts("fetchProjectDetails", q, {1})
    /\ vwLoading' = TRUE
    /\ UNCHANGED <<vwKind, vwData, vwToast, dbAccounts>>
    /\ UNCHANGED ViewRest

\* ProjectDetailModal.fetchProjectDetails goes on after an await (69-92):
\* setProject, then the updates select; setUpdates
PdFetchProjectDetailsSettle(f) ==
    /\ vwKind = "ProjectDetail"
    /\ BagIn(f, vwCalls)
    /\ f.fn = "fetchProjectDetails"
    /\ Ready(f)
    /\ IF Rejected(f) \/ ErrorReturned(f)
       THEN /\ CallEnds(f)
            /\ vwToast' = "Failed to load project details"
            /\ vwLoading' = FALSE
            /\ UNCHANGED vwData
       ELSE /\ vwData' = [vwData EXCEPT
                    ![IF f.step = 1 THEN "project" ELSE "updates"] = f.data[1]]
            /\ UNCHANGED vwToast
            /\ IF f.step = 1
               THEN CallAwaits(f, {1}, {}) /\ UNCHANGED vwLoading
               ELSE CallEnds(f) /\ vwLoading' = FALSE
    /\ UNCHANGED <<vwKind, vwOpen, vwSelected, dbAccounts>>
    /\ UNCHANGED ViewRest

\* UserActivityCard.fetchUsers goes on after its await (50-60): it has no
\* loading flag
UaFetchUsersSettle(f) ==
    /\ vwKind = "UserActivity"
    /\ FetchSettles(f, "fetchUsers", "users", "Failed to load users")
    /\ UNCHANGED <<vwKind, vwLoading, vwOpen, vwSelected, dbAccounts>>
    /\ UNCHANGED ViewRest

\* UserActivityCard.fetchUserActivity goes on after its await (82-95)
UaFetchUserActivitySettle(f) ==
    /\ vwKind = "UserActivity"
    /\ FetchSettles(f, "fetchUserActivity", "userActivity", "Failed to load user activity")
    /\ vwLoading' = FALSE
    /\ UNCHANGED <<vwKind, vwOpen, vwSelected, dbAccounts>>
    /\ UNCHANGED ViewRest

\* the user Select changes (part_007 140): setSelectedUserId, and
\* useEffect([selectedUserId]) calls fetchUserActivity() up to its await
UaSelectUser(u) ==
    /\ vwKind = "UserActivity"
    /\ u # vwSelected
    /\ vwSelected' = u
    /\ CallStarts("fetchUserActivity", u, {1})
    /\ vwLoading' = TRUE
    /\ UNCHANGED <<vwKind, vwData, vwToast, vwOpen, dbAccounts>>
    /\ UNCHANGED ViewRest

\* the state slots of a view, all empty at mount
ViewSlots(kind) ==
    CASE kind = "ClientOverview" -> {"clients"}
      [] kind = "UserUpdateFrequency" -> {"frequencyData"}
      [] kind = "Dashboard" -> {"accounts", "projects", "recentActivity"}
      [] kind = "Updates" -> {"updates"}
      [] kind \in AccountsViewKinds -> {"accounts"}
      [] kind = "AccountDetail" -> {"account", "projects", "recentUpdates"}
      [] kind = "ProjectDetail" -> {"project", "updates"}
      [] kind = "UserActivity" -> {"users", "userActivity"}

\* the calls the mount effects of a view have made
MountCalls(kind) ==
    CASE kind = "ClientOverview" -> SetToBag({SentCall("fetchClientData", 0, {1})})
      [] kind = "UserUpdateFrequency" -> SetToBag({SentCall("fetchUserFrequency", 0, {1})})
      [] kind = "Dashboard" -> SetToBag({SentCall("fetchDashboardData", 0, {1, 2, 3})})
      [] kind = "Updates" -> SetToBag({SentCall("fetchUpdates", 0, {1})})
      [] kind \in AccountsViewKinds -> SetToBag({SentCall("fetchAccounts", 0, {1})})
      [] kind = "AccountDetail" -> EmptyBag
      [] kind = "ProjectDetail" -> EmptyBag
      [] kind = "UserActivity" ->
            SetToBag({SentCall("fetchUsers", 0, {1}),
                      SentCall("fetchUserActivity", AllUsers, {1})})

\* no view has a request in flight; kind is the component on screen
VwAt(kind) ==
    /\ vwKind = kind
    /\ vwLoading = FALSE
    /\ vwData = <<>>
    /\ vwToast = ""
    /\ vwCalls = EmptyBag
    /\ vwOpen = FALSE
    /\ vwSelected = 0
    /\ dbAccounts = AccountIds

\* no view of this section is mounted
VwIdle == VwAt("none")

(***************************************************************************)
(* CreateAccountModal (components/modals/CreateAccountModal), mounted by   *)
(* AccountsView with onAccountCreated={fetchAccounts}                      *)
(***************************************************************************)

MaxAccounts == 1        \* rows the accounts table takes from the modal

\* values the name Input is changed to
AccNameInputs == {"", "Acme"}

\* SelectItem values of the type field the model chooses among (of
\* Enterprise, SMB, Startup, Government, Non-Profit)
AccTypeInputs == {"", "Enterprise"}

\* useState({name: '', type: '', status: 'Active', description: ''})
CaBlankForm == [name |-> "", type |-> "", status |-> "Active", description |-> ""]

NoAccInsert == [active |-> FALSE, row |-> <<>>]

\* the id the accounts table gives the next row
NextAccountId ==
    CHOOSE n \in 1..(Cardinality(dbAccounts) + 1) :
        /\ n \notin dbAccounts
        /\ \A m \in 1..(n - 1) : m \in dbAccounts

\* New Account / Create Account (AccountsView 268-274, 342-348), rendered
\* when the view is not loading: setCreateAccountModalOpen(true)
AvOpenCreateAccount ==
    /\ vwKind = "CreateAccount"
    /\ ~vwLoading
    /\ ~caOpen
    /\ caOpen' = TRUE
    /\ UNCHANGED <<caForm, caLoading, caInsert, submitTrace, vwVars>>
    /\ UNCHANGED CaOthers

\* Cancel, or the dialog is dismissed: onOpenChange(false)
CaClose ==
    /\ vwKind = "CreateAccount"
    /\ caOpen
    /\ caOpen' = FALSE
    /\ UNCHANGED <<caForm, caLoading, caInsert, submitTrace, vwVars>>
    /\ UNCHANGED CaOthers

\* the values a field of the modal can be changed to; the status and the
\* description are left as they start
CaFieldValues(field) ==
    CASE field = "name" -> AccNameInputs
      [] field = "type" -> AccTypeInputs

\* a field of the modal changes (CreateAccountModal 98-145)
CaChange(field, value) ==
    /\ vwKind = "CreateAccount"
    /\ caOpen
    /\ value \in CaFieldValues(field)
    /\ caForm' = [caForm EXCEPT ![field] = value]
    /\ caForm' # caForm
    /\ UNCHANGED <<caOpen, caLoading, caInsert, submitTrace, vwVars>>
    /\ UNCHANGED CaOthers

\* the row of the insert (CreateAccountModal 51-56): description || null
AccountData(form) ==
    [name |-> form.name, type |-> form.type, status |-> form.status,
     description |-> IF form.description = "" THEN "null" ELSE form.description]

\* the modal is submitted (the button is disabled={loading}) and handleSubmit
\* runs up to the await of the insert (CreateAccountModal 34-57)
CaSubmit ==
    /\ vwKind = "CreateAccount"
    /\ caOpen
    /\ ~caLoading
    /\ IF caForm.name = "" \/ caForm.type = ""
       THEN /\ vwToast' = "Name and type are required"
            /\ UNCHANGED <<caLoading, caInsert>>
       ELSE /\ caLoading' = TRUE
            /\ caInsert' = [active |-> TRUE, row |-> AccountData(caForm)]
            /\ UNCHANGED vwToast
    /\ UNCHANGED <<caOpen, caForm, submitTrace, vwKind, vwLoading, vwData, vwCalls,
                   vwOpen, vwSelected, dbAccounts>>
    /\ UNCHANGED CaOthers

\* what handleSubmit calls after the insert, in order (CreateAccountModal
\* 59-83)
CaAfterInsert(ret) ==
    IF ret = "ok"
    THEN <<"toast", "setFormData", "onOpenChange", "onAccountCreated", "setLoading">>
    ELSE <<"toast", "setLoading">>

\* the mutant: a failed insert closes the dialog and resets the form
CaInsertReturns_ClosesOnFailure(outcome) ==
    /\ vwKind = "CreateAccount"
    /\ caInsert.active
    /\ outcome = "ok" => /\ Cardinality(dbAccounts) < MaxAccounts
                         /\ BagCardinality(vwCalls) < MaxViewCalls
    /\ caInsert' = NoAccInsert
    /\ caLoading' = FALSE
    /\ submitTrace' = CaAfterInsert(outcome)
    /\ caForm' = CaBlankForm
    /\ caOpen' = FALSE
    /\ IF outcome = "ok"
       THEN /\ dbAccounts' = dbAccounts \cup {NextAccountId}
            /\ vwToast' = "Account created successfully"
            /\ vwCalls' = BagAdd(vwCalls, SentCall("fetchAccounts", 0, {1}))
       ELSE /\ vwToast' = "Failed to create account. Please check the console for details."
            /\ UNCHANGED <<dbAccounts, vwCalls>>
    /\ UNCHANGED <<vwKind, vwLoading, vwData, vwOpen, vwSelected>>
    /\ UNCHANGED CaOthers

\* the insert returns and handleSubmit goes on (CreateAccountModal 59-83):
\* the row is stored; success toast, form reset, onOpenChange(false) and
\* onAccountCreated(), which is the view's fetchAccounts (AccountsView 364);
\* an error is thrown into the catch; finally setLoading(false)
CaInsertReturns(outcome) ==
    /\ vwKind = "CreateAccount"
    /\ caInsert.active
    /\ outcome = "ok" => /\ Cardinality(dbAccounts) < MaxAccounts
                         /\ BagCardinality(vwCalls) < MaxViewCalls
    /\ caInsert' = NoAccInsert
    /\ caLoading' = FALSE
    /\ submitTrace' = CaAfterInsert(outcome)
    /\ IF outcome = "ok"
       THEN /\ dbAccounts' = dbAccounts \cup {NextAccountId}
            /\ vwToast' = "Account created successfully"
            /\ caForm' = CaBlankForm
            /\ caOpen' = FALSE
            /\ vwCalls' = BagAdd(vwCalls, SentCall("fetchAccounts", 0, {1}))
       ELSE /\ vwToast' = "Failed to create account. Please check the console for details."
            /\ UNCHANGED <<caForm, caOpen, dbAccounts, vwCalls>>
    /\ UNCHANGED <<vwKind, vwLoading, vwData, vwOpen, vwSelected>>
    /\ UNCHANGED CaOthers

\* the modal as AccountsView mounts it
CaIdle ==
    /\ caOpen = FALSE
    /\ caForm = CaBlankForm
    /\ caLoading = FALSE
    /\ caInsert = NoAccInsert
    /\ submitTrace = <<>>

(***************************************************************************)
(* AppContent (pages/Index): the tabs, handleRefreshData, and              *)
(* QuickCreateModal (components/QuickCreateModal)                          *)
(***************************************************************************)

MaxTimers == 1          \* timers of handleRefreshData pending at once
MaxCreates == 1         \* inserts of the create modals in flight at once

\* the tabs of Layout (Layout 24-29)
Tabs == {"dashboard", "accounts", "projects", "updates"}

\* the create modals QuickCreateModal opens (QuickCreateModal 32-54, 90-108)
QuickCreateOptions == {"account", "project", "update"}

\* <Dialog open={open && !activeModal}> (QuickCreateModal 58)
QcDialogShown == quickCreateModalOpen /\ activeModal = ""

\* Layout: onClick={() => onTabChange(tab.id)} with onTabChange={setActiveTab};
\* a dialog that is shown keeps the page behind it from being clicked
TabChange(t) ==
    /\ AppMounted
    /\ ~QcDialogShown
    /\ activeModal = ""
    /\ activeTab' = t
    /\ tabSelected' = t
    /\ UNCHANGED <<quickCreateModalOpen, activeModal, qcInserts, refreshTimers>>
    /\ UNCHANGED TabRest

\* handleShowCreateModal (Index 29-31)
HandleShowCreateModal ==
    /\ AppMounted
    /\ ~QcDialogShown
    /\ activeModal = ""
    /\ quickCreateModalOpen' = TRUE
    /\ UNCHANGED <<activeTab, activeModal, qcInserts, refreshTimers, tabSelected>>
    /\ UNCHANGED TabRest

\* the Quick Create dialog is dismissed: onOpenChange(false)
QcOpenChange ==
    /\ QcDialogShown
    /\ quickCreateModalOpen' = FALSE
    /\ UNCHANGED <<activeTab, activeModal, qcInserts, refreshTimers, tabSelected>>
    /\ UNCHANGED TabRest

\* a card of the dialog is clicked: setActiveModal(option.id)
QcChoose(k) ==
    /\ QcDialogShown
    /\ activeModal' = k
    /\ UNCHANGED <<activeTab, quickCreateModalOpen, qcInserts, refreshTimers, tabSelected>>
    /\ UNCHANGED TabRest

\* the create modal is dismissed: onOpenChange={(open) => !open && setActiveModal(null)}
QcModalClose ==
    /\ activeModal # ""
    /\ activeModal' = ""
    /\ UNCHANGED <<activeTab, quickCreateModalOpen, qcInserts, refreshTimers, tabSelected>>
    /\ UNCHANGED TabRest

\* the form of create modal k is submitted and its handleSubmit awaits the
\* insert (the button is disabled while loading); the handleSubmit holds the
\* callback, and through it the handleRefreshData, of the render it was made
\* in, with the activeTab of that render
QcSubmit(k) ==
    /\ activeModal = k
    /\ qcInserts[k] = "none"
    /\ Cardinality({j \in QuickCreateOptions : qcInserts[j] # "none"}) < MaxCreates
    /\ qcInserts' = [qcInserts EXCEPT ![k] = activeTab]
    /\ UNCHANGED <<activeTab, quickCreateModalOpen, activeModal, refreshTimers, tabSelected>>
    /\ UNCHANGED TabRest

\* handleRefreshData (Index 42-47) of a render with activeTab currentTab:
\* setActiveTab(''); setTimeout(() => setActiveTab(currentTab), 100)
HandleRefreshData(currentTab) ==
    /\ activeTab' = ""
    /\ refreshTimers' = Append(refreshTimers, currentTab)

\* the insert of create modal k returns; on success the modal calls its
\* created callback, handleItemCreated (QuickCreateModal 26-30):
\* setActiveModal(null); onOpenChange(false); onItemCreated()
QcInsertReturns(k, outcome) ==
    /\ qcInserts[k] # "none"
    /\ qcInserts' = [qcInserts EXCEPT ![k] = "none"]
    /\ IF outcome = "ok"
       THEN /\ Len(refreshTimers) < MaxTimers
            /\ activeModal' = ""
            /\ quickCreateModalOpen' = FALSE
            /\ HandleRefreshData(qcInserts[k])
            /\ tabSelected' = ""
       ELSE UNCHANGED <<activeTab, quickCreateModalOpen, activeModal, refreshTimers,
                        tabSelected>>
    /\ UNCHANGED TabRest

\* the timer handleRefreshData scheduled first fires: setActiveTab(currentTab)
RefreshTimerFires ==
    /\ refreshTimers # <<>>
    /\ activeTab' = Head(refreshTimers)
    /\ refreshTimers' = Tail(refreshTimers)
    /\ UNCHANGED <<quickCreateModalOpen, activeModal, qcInserts, tabSelected>>
    /\ UNCHANGED TabRest

\* AppContent and QuickCreateModal as they are constructed
TabIdle ==
    /\ activeTab = "dashboard"
    /\ quickCreateModalOpen = FALSE
    /\ activeModal = ""
    /\ qcInserts = [k \in QuickCreateOptions |-> "none"]
    /\ refreshTimers = <<>>
    /\ tabSelected = ""

(***************************************************************************)
(* lib/api-client (apiRequest), lib/api-keys (getApiKeys, validateApiKeys, *)
(* ensureApiKeys) and the useApi hook                                      *)
(***************************************************************************)

\* JavaScript values of the environment and of the keys
JsUndefined == [type |-> "undefined", str |-> ""]
JsNull == [type |-> "null", str |-> ""]
JsStr(s) == [type |-> "string", str |-> s]

\* truthiness, a || b, and `${v}`
Truthy(v) == v.type = "string" /\ v.str # ""
JsOr(v, w) == IF Truthy(v) THEN v ELSE w
TemplateText(v) == IF v.type = "string" THEN v.str ELSE v.type

\* values process.env holds for the two variables
OpenRouterEnvValues == {JsUndefined, JsStr(""), JsStr("sk-or-1")}
GeminiEnvValues == {JsUndefined, JsStr(""), JsStr("AIza-1")}

\* getApiKeys() (api-client 133-147)
GetApiKeys ==
    [openrouterApiKey |-> JsOr(apiEnv.VITE_OPENROUTER_API_KEY, JsNull),
     geminiApiKey |-> JsOr(apiEnv.VITE_GEMINI_API_KEY, JsNull)]

\* the mutant: one key is enough
ValidateApiKeys_Either ==
    Truthy(GetApiKeys.openrouterApiKey) \/ Truthy(GetApiKeys.geminiApiKey)

\* validateApiKeys() (api-client 153-156): !!(openrouterApiKey && geminiApiKey)
ValidateApiKeys ==
    Truthy(GetApiKeys.openrouterApiKey) /\ Truthy(GetApiKeys.geminiApiKey)

\* ensureApiKeys() (api-client 162-172): the message of the Error it throws,
\* <<>> when it returns
EnsureApiKeys ==
    IF ~ValidateApiKeys
    THEN <<"Missing required API keys: ">>
         \o (IF ~Truthy(GetApiKeys.openrouterApiKey) THEN <<"OpenRouter API Key">> ELSE <<>>)
         \o (IF ~Truthy(GetApiKeys.openrouterApiKey) /\ ~Truthy(GetApiKeys.geminiApiKey)
             THEN <<", ">> ELSE <<>>)
         \o (IF ~Truthy(GetApiKeys.geminiApiKey) THEN <<"Gemini API Key">> ELSE <<>>)
    ELSE <<>>

\* options of a call: a field left out is "absent"
ApiEndpoints == {<<"/chat/completions">>, <<"/models/gemini-pro:generateContent", "?", "alt=sse">>}
ApiOptions ==
    [endpoint : ApiEndpoints, method : {"absent", "POST"},
     headers : {{}, {"X-Title"}}, body : {"absent", "json"},
     service : {"absent", "openrouter", "gemini"}]

NoOptions ==
    [endpoint |-> <<>>, method |-> "absent", headers |-> {}, body |-> "absent",
     service |-> "absent"]

\* service = 'gemini' in the destructuring of options (api-client 17-23)
ServiceOf(options) == IF options.service = "absent" THEN "gemini" ELSE options.service

\* the switch on service (api-client 34-50)
BaseUrl(service) ==
    IF service = "gemini" THEN "https://generativelanguage.googleapis.com/v1beta"
    ELSE "https://openrouter.ai/api/v1"

ApiKeyOf(service) ==
    IF service = "gemini" THEN GetApiKeys.geminiApiKey ELSE GetApiKeys.openrouterApiKey

\* s.includes('?')
HasQuery(s) == \E k \in 1..Len(s) : s[k] = "?"

FinalEndpoint(endpoint, service) ==
    IF service = "gemini"
    THEN (IF ~HasQuery(endpoint)
          THEN endpoint \o <<"?", "key=", TemplateText(ApiKeyOf(service))>>
          ELSE endpoint \o <<"&", "key=", TemplateText(ApiKeyOf(service))>>)
    ELSE endpoint

\* defaultHeaders, with HTTP-Referer for openrouter in the browser and without
\* Authorization for gemini, spread under the caller's headers (api-client
\* 53-74); header name -> value
RequestHeaders(service, headers) ==
    LET names == {"Content-Type"}
                 \cup (IF service = "gemini" THEN {} ELSE {"Authorization"})
                 \cup (IF service = "openrouter" THEN {"HTTP-Referer"} ELSE {})
                 \cup headers
    IN  [h \in names |->
            IF h \in headers THEN <<"custom">>
            ELSE IF h = "Content-Type" THEN <<"application/json">>
            ELSE IF h = "Authorization" THEN <<"Bearer ", TemplateText(ApiKeyOf(service))>>
            ELSE <<"window.location.origin">>]

\* the request apiRequest hands to fetch (api-client 69-76)
HttpRequest(options) ==
    [url |-> <<BaseUrl(ServiceOf(options))>> \o FinalEndpoint(options.endpoint, ServiceOf(options)),
     method |-> IF options.method = "absent" THEN "GET" ELSE options.method,
     headers |-> RequestHeaders(ServiceOf(options), options.headers),
     body |-> IF options.body = "absent" THEN "undefined" ELSE "JSON.stringify(body)"]

IdleApi ==
    [pc |-> "idle", via |-> "none", options |-> NoOptions, http |-> <<>>,
     error |-> <<>>]

\* apiRequest(options) runs up to its await of fetch (api-client 16-76):
\* ensureApiKeys() throws, or the request is sent
ApiRequestStarts(via, options) ==
    IF EnsureApiKeys # <<>>
    THEN [pc |-> "threw", via |-> via, options |-> options, http |-> <<>>,
          error |-> EnsureApiKeys]
    ELSE [pc |-> "fetching", via |-> via, options |-> options,
          http |-> <<HttpRequest(options)>>, error |-> <<>>]

\* apiRequest(options) is called by itself
ApiRequest(options) ==
    /\ apiCall.pc # "fetching"
    /\ apiCall' = ApiRequestStarts("apiRequest", options)
    /\ UNCHANGED <<apiEnv, uaData, uaError, uaLoading>>
    /\ UNCHANGED ApiRest

\* useApi().fetchData(options) runs up to the await of apiRequest (part_009
\* 112-124): ensureApiKeys() throws into the catch (setError, finally
\* setLoading(false), rethrow), or setLoading(true), setError(null) and
\* apiRequest({...requestOptions, service: options.service || 'openrouter'})
UseApiFetchData(options) ==
    /\ apiCall.pc # "fetching"
    /\ IF EnsureApiKeys # <<>>
       THEN /\ apiCall' = [pc |-> "threw", via |-> "fetchData", options |-> options,
                           http |-> <<>>, error |-> EnsureApiKeys]
            /\ uaError' = EnsureApiKeys
            /\ uaLoading' = FALSE
       ELSE /\ apiCall' = [ApiRequestStarts("fetchData",
                               [options EXCEPT !.service =
                                   IF options.service = "absent" THEN "openrouter"
                                   ELSE options.service])
                           EXCEPT !.options = options]
            /\ uaError' = <<>>
            /\ uaLoading' = TRUE
    /\ UNCHANGED <<apiEnv, uaData>>
    /\ UNCHANGED ApiRest

\* fetch settles and apiRequest goes on (api-client 78-86): an Error when the
\* response is not ok (or fetch rejected), else the parsed body; fetchData
\* goes on after it (part_009 126-147)
HttpResponds(outcome) ==
    /\ apiCall.pc = "fetching"
    /\ LET message == IF outcome = "ok" THEN <<>>
                      ELSE IF outcome = "error"
                      THEN <<"API request failed with status ">>
                      ELSE <<"Failed to fetch">>
       IN  /\ apiCall' = [apiCall EXCEPT !.pc = IF outcome = "ok" THEN "returned" ELSE "threw",
                                         !.error = message]
           /\ IF apiCall.via = "fetchData"
              THEN /\ uaLoading' = FALSE
                   /\ IF outcome = "ok"
                      THEN uaData' = "response" /\ UNCHANGED uaError
                      ELSE uaError' = message /\ UNCHANGED uaData
              ELSE UNCHANGED <<uaData, uaError, uaLoading>>
    /\ UNCHANGED apiEnv
    /\ UNCHANGED ApiRest

\* no call of the api client has been made
ApiIdle ==
    /\ apiCall = IdleApi
    /\ uaData = "null"
    /\ uaError = <<>>
    /\ uaLoading = FALSE

\* the build has no key in its environment
ApiEnvIdle ==
    apiEnv = [VITE_OPENROUTER_API_KEY |-> JsUndefined, VITE_GEMINI_API_KEY |-> JsUndefined]

\* the view and its modal before the view is mounted
ViewIdle ==
    /\ pvProjects = <<>>
    /\ pvLoading = TRUE
    /\ pvSearchTerm = <<>>
    /\ pvStatusFilter = "all"
    /\ pvCreateOpen = FALSE
    /\ pvFetches = EmptyBag
    /\ pvDeletes = EmptyBag
    /\ pvToast = ""
    /\ cpForm = CpBlankForm
    /\ cpAccounts = {}
    /\ cpLoading = FALSE
    /\ cpInsert = NoProjInsert

UpdIdle ==
    /\ updVariant = "split"
    /\ updOpen = FALSE
    /\ updPreselected = NoProject
    /\ updForm = UpdBlankForm(NoProject)
    /\ updProjects = {}
    /\ updFetches = 0
    /\ updLoading = FALSE
    /\ updInsert = NoInsert
    /\ updToast = ""
    /\ dbUpdates = <<>>

ProjIdle ==
    /\ dbProjects = {}
    /\ nextProjectId = 1

\* the state before AuthProvider's effect has run, with no persisted session
AuthIdle ==
    /\ authLoading = TRUE
    /\ session = NoUser
    /\ user = NoUser
    /\ profile = NoUser
    /\ storedSession = NoUser
    /\ authInitPending = {"event", "getSession"}
    /\ profileFetches = {}
    /\ logoutPending = FALSE
    /\ logins = [c \in 1..MaxLogins |-> IdleLogin]
    /\ lastLogin = NoLogin

FormIdle ==
    /\ loginForm = "otp"
    /\ pin = <<>>
    /\ formError = ""
    /\ lastToast = ""

\* Row i is either unlinked or linked to identity i, registered under the
\* row's synthetic email.
BackendInit ==
    /\ \E linked \in SUBSET (1..NProfiles) :
          /\ profiles = [i \in 1..NProfiles |->
                            [pin |-> PinOf(i),
                             user_id |-> IF i \in linked THEN i ELSE NoUser]]
          /\ authUsers = {[id |-> i, email |-> FnEmail(PinOf(i)), password |-> PinOf(i)]
                            : i \in linked}
    /\ nextUid = NProfiles + 1

FnInit ==
    /\ BackendInit
    /\ reqs = [r \in 1..NReq |-> IdleReq]
    /\ AuthIdle
    /\ FormIdle
    /\ UpdIdle
    /\ ProjIdle
    /\ ViewIdle
    /\ VwIdle
    /\ ApiIdle
    /\ ApiEnvIdle
    /\ CaIdle
    /\ TabIdle

FnNext ==
    \/ \E r \in 1..NReq, m \in {"POST", "OPTIONS"}, b \in FnBodies : FnServe(r, m, b)
    \/ \E r \in 1..NReq, o \in Outcomes : DbLookup(r, o)
    \/ \E r \in 1..NReq : FnAfterLookup(r)
    \/ \E r \in 1..NReq, o \in Outcomes : AuthCreateUser(r, o)
    \/ \E r \in 1..NReq : FnAfterCreate(r)
    \/ \E r \in 1..NReq, o \in Outcomes : DbUpdate(r, o)
    \/ \E r \in 1..NReq : FnAfterUpdate(r)
    \/ \E r \in 1..NReq : FnCatch(r)
    \/ \E r \in 1..NReq : FnForget(r)

SpecPinAuth == FnInit /\ [][FnNext]_vars

\* AuthProvider mounts; the auth client may hold the session of an identity
\* from an earlier visit
LoginStart ==
    /\ BackendInit
    /\ reqs = [r \in 1..NReq |-> IdleReq]
    /\ authLoading = TRUE
    /\ session = NoUser
    /\ user = NoUser
    /\ profile = NoUser
    /\ storedSession \in {NoUser} \cup {u.id : u \in authUsers}
    /\ authInitPending = {"event", "getSession"}
    /\ profileFetches = {}
    /\ logoutPending = FALSE
    /\ logins = [c \in 1..MaxLogins |-> IdleLogin]
    /\ lastLogin = NoLogin
    /\ loginForm \in {"input", "otp"}
    /\ pin = <<>>
    /\ formError = ""
    /\ lastToast = ""
    /\ UpdIdle
    /\ ProjIdle
    /\ ViewIdle
    /\ ApiIdle
    /\ ApiEnvIdle
    /\ CaIdle
    /\ TabIdle

LoginInit == LoginStart /\ VwIdle

LoginNext ==
    \/ AuthInitialEvent
    \/ AuthGetSession
    \/ \E raw \in LoginRawInputs : LoginChange(raw)
    \/ \E c \in 1..MaxLogins : LoginSubmit(c)
    \/ \E c \in 1..MaxLogins, o \in Outcomes : LoginLookup(c, o)
    \/ \E c \in 1..MaxLogins, o \in Outcomes : LoginSignInDirect(c, o)
    \/ \E c \in 1..MaxLogins, o \in Outcomes : LoginRpc(c, o)
    \/ \E c \in 1..MaxLogins, o \in Outcomes : LoginSignInAfter(c, o)
    \/ \E uid \in profileFetches, o \in Outcomes : AuthProfileFetch(uid, o)

SpecLogin == LoginInit /\ [][LoginNext]_vars

\* the application right after a sign-in: the listener has run for the
\* session of an identity and the profile fetch it deferred is pending
SignedIn ==
    /\ session \in {u.id : u \in authUsers}
    /\ user = session
    /\ storedSession = session
    /\ authLoading = FALSE
    /\ profile = NoUser
    /\ authInitPending = {}
    /\ profileFetches = {session}
    /\ logoutPending = FALSE
    /\ logins = [c \in 1..MaxLogins |-> IdleLogin]
    /\ lastLogin = NoLogin

UpdStart ==
    /\ BackendInit
    /\ reqs = [r \in 1..NReq |-> IdleReq]
    /\ SignedIn
    /\ FormIdle
    /\ ProjInit
    /\ updVariant \in {"split", "joint"}
    /\ updOpen = FALSE
    /\ updPreselected = NoProject
    /\ updForm = UpdBlankForm(NoProject)
    /\ updProjects = {}
    /\ updFetches = 0
    /\ updLoading = FALSE
    /\ updInsert = NoInsert
    /\ updToast = ""
    /\ dbUpdates = <<>>
    /\ ViewIdle
    /\ ApiIdle
    /\ ApiEnvIdle
    /\ CaIdle
    /\ TabIdle

UpdInit == UpdStart /\ VwIdle

UpdNext ==
    \/ \E uid \in profileFetches, o \in Outcomes : AuthProfileFetch(uid, o)
    \/ AuthLogout
    \/ \E o \in Outcomes : AuthSignOut(o)
    \/ \E b \in BOOLEAN : UpdOpenChange(b)
    \/ \E q \in ProjectIds : UpdOpenFor(q)
    \/ \E o \in Outcomes : UpdFetchProjects(o)
    \/ \E f \in {"project_id", "content", "type"} :
          \E v \in UpdFieldValues(f) : UpdChange(f, v)
    \/ UpdSubmit
    \/ \E o \in Outcomes : UpdInsertReturns(o)

SpecUpdates == UpdInit /\ [][UpdNext]_vars

\* the Projects view has just been mounted: useEffect has called
\* fetchProjects() (ProjectsView 245-247)
PvStart ==
    /\ BackendInit
    /\ \A i \in DOMAIN profiles : profiles[i].user_id # NoUser
    /\ reqs = [r \in 1..NReq |-> IdleReq]
    /\ SignedIn
    /\ session = 1
    /\ FormIdle
    /\ UpdIdle
    /\ dbProjects = {}
    /\ nextProjectId = 1
    /\ pvProjects = <<>>
    /\ pvLoading = TRUE
    /\ pvSearchTerm = <<>>
    /\ pvStatusFilter = "all"
    /\ pvCreateOpen = FALSE
    /\ pvFetches = SetToBag({SentFetch(NoProject)})
    /\ pvDeletes = EmptyBag
    /\ pvToast = ""
    /\ cpForm = CpBlankForm
    /\ cpAccounts = {}
    /\ cpLoading = FALSE
    /\ cpInsert = NoProjInsert
    /\ ApiIdle
    /\ ApiEnvIdle
    /\ CaIdle
    /\ TabIdle

PvInit == PvStart /\ VwIdle

PvNext ==
    \/ \E f \in BagToSet(pvFetches), o \in Outcomes : PvFetchServe(f, o)
    \/ \E f \in BagToSet(pvFetches) : PvFetchSettle(f)
    \/ \E t \in SearchInputs : PvSetSearch(t)
    \/ \E v \in StatusFilterInputs : PvSetStatusFilter(v)
    \/ \E o \in Outcomes : PvOpenCreate(o)
    \/ CpClose
    \/ \E f \in {"name", "account_id"} :
          \E v \in CpFieldValues(f) : CpChange(f, v)
    \/ CpSubmit
    \/ \E o \in Outcomes : CpInsertReturns(o)
    \/ \E q \in DisplayedIds : PvDelete(q)
    \/ \E q \in BagToSet(pvDeletes), o \in Outcomes : PvDeleteReturns(q, o)

SpecProjects == PvInit /\ [][PvNext]_vars

\* ids a detail modal is opened for: a row of the table, or a row that is
\* gone
DetailIds == {1, 2}

\* the row of the updates table the views find
FirstUpdate ==
    [project_id |-> 1, content |-> "note", type |-> "general", date |-> Today,
     created_by |-> 1]

\* rows of the profiles table a view is followed with: UserActivityCard
\* filters by user and has one user more, who has written no update
ViewProfiles(kind) == 1..(IF kind = "UserActivity" THEN NProfiles + 1 ELSE NProfiles)

\* rows of the accounts table a view is followed with: the CreateAccountModal
\* starts from a table without rows, AccountDetailModal has one account
\* more, which has no project
ViewAccounts(kind) ==
    CASE kind = "CreateAccount" -> {}
      [] kind = "AccountDetail" -> AccountIds \cup {Cardinality(AccountIds) + 1}
      [] OTHER -> AccountIds

\* one of the views has just been mounted and its mount effects have run;
\* every profile is linked to its identity; the CreateAccountModal is
\* followed from an accounts table without rows
ViewsInit ==
    /\ vwKind \in ViewKinds
    /\ profiles = [i \in ViewProfiles(vwKind) |-> [pin |-> PinOf(i), user_id |-> i]]
    /\ authUsers = {[id |-> i, email |-> FnEmail(PinOf(i)), password |-> PinOf(i)]
                      : i \in ViewProfiles(vwKind)}
    /\ nextUid = Cardinality(ViewProfiles(vwKind)) + 1
    /\ reqs = [r \in 1..NReq |-> IdleReq]
    /\ SignedIn
    /\ session = 1
    /\ FormIdle
    /\ updVariant = "split"
    /\ updOpen = FALSE
    /\ updPreselected = NoProject
    /\ updForm = UpdBlankForm(NoProject)
    /\ updProjects = {}
    /\ updFetches = 0
    /\ updLoading = FALSE
    /\ updInsert = NoInsert
    /\ updToast = ""
    /\ \/ dbProjects = {} /\ dbUpdates = <<>>
       \/ dbProjects = {FirstProject} /\ dbUpdates \in {<<>>, <<FirstUpdate>>}
    /\ nextProjectId = 2
    /\ ViewIdle
    /\ vwLoading = TRUE
    /\ vwData = [slot \in ViewSlots(vwKind) |-> {}]
    /\ vwToast = ""
    /\ vwCalls = MountCalls(vwKind)
    /\ vwOpen = FALSE
    /\ vwSelected = 0
    /\ dbAccounts = ViewAccounts(vwKind)
    /\ ApiIdle
    /\ ApiEnvIdle
    /\ CaIdle
    /\ TabIdle

ViewsNext ==
    \/ \E f \in BagToSet(vwCalls) : \E k \in DOMAIN f.rets, o \in Outcomes : ViewServe(f, k, o)
    \/ \E f \in BagToSet(vwCalls) : CoFetchClientDataSettle(f)
    \/ \E f \in BagToSet(vwCalls) : UfFetchUserFrequencySettle(f)
    \/ \E f \in BagToSet(vwCalls) : DvFetchDashboardDataSettle(f)
    \/ DvRefresh
    \/ \E f \in BagToSet(vwCalls) : UvFetchUpdatesSettle(f)
    \/ UvOnUpdateCreated
    \/ \E f \in BagToSet(vwCalls) : AvFetchAccountsSettle(f)
    \/ \E a \in dbAccounts : AvDeleteAccount(a)
    \/ \E f \in BagToSet(vwCalls) : AvDeleteAccountSettle(f)
    \/ \E a \in DetailIds : AdOpen(a)
    \/ DetailClose
    \/ \E f \in BagToSet(vwCalls) : AdFetchAccountDetailsSettle(f)
    \/ \E q \in DetailIds : PdOpen(q)
    \/ \E f \in BagToSet(vwCalls) : PdFetchProjectDetailsSettle(f)
    \/ \E f \in BagToSet(vwCalls) : UaFetchUsersSettle(f)
    \/ \E f \in BagToSet(vwCalls) : UaFetchUserActivitySettle(f)
    \/ \E u \in {AllUsers} \cup DOMAIN profiles : UaSelectUser(u)
    \/ AvOpenCreateAccount
    \/ CaClose
    \/ \E f \in {"name", "type"} : \E v \in CaFieldValues(f) : CaChange(f, v)
    \/ CaSubmit
    \/ \E o \in Outcomes : CaInsertReturns(o)

SpecViews == ViewsInit /\ [][ViewsNext]_vars

\* the api client in a build with some environment
ApiInit ==
    /\ BackendInit
    /\ reqs = [r \in 1..NReq |-> IdleReq]
    /\ AuthIdle
    /\ FormIdle
    /\ UpdIdle
    /\ ProjIdle
    /\ ViewIdle
    /\ vwKind = "none"
    /\ vwLoading = FALSE
    /\ vwData = <<>>
    /\ vwToast = ""
    /\ vwCalls = EmptyBag
    /\ vwOpen = FALSE
    /\ vwSelected = 0
    /\ dbAccounts = AccountIds
    /\ apiEnv \in [VITE_OPENROUTER_API_KEY : OpenRouterEnvValues,
                    VITE_GEMINI_API_KEY : GeminiEnvValues]
    /\ ApiIdle
    /\ CaIdle
    /\ TabIdle

ApiNext ==
    \/ \E o \in ApiOptions : ApiRequest(o)
    \/ \E o \in ApiOptions : UseApiFetchData(o)
    \/ \E o \in Outcomes : HttpResponds(o)

SpecApi == ApiInit /\ [][ApiNext]_vars

\* The application followed through one of its parts: the login form, the
\* CreateUpdateModal of a user who stays signed in, the Projects view with
\* its CreateProjectModal and its search box and status filter left as they
\* start, or one of the data-loading views
AppInit ==
    \/ LoginStart /\ VwAt("Login")
    \/ UpdStart /\ VwAt("CreateUpdate")
    \/ PvStart /\ VwAt("Projects")
    \/ ViewsInit

AppUpdatesNext ==
    \/ \E uid \in profileFetches, o \in Outcomes : AuthProfileFetch(uid, o)
    \/ \E b \in BOOLEAN : UpdOpenChange(b)
    \/ \E q \in ProjectIds : UpdOpenFor(q)
    \/ \E o \in Outcomes : UpdFetchProjects(o)
    \/ \E f \in {"project_id", "content", "type"} :
          \E v \in UpdFieldValues(f) : UpdChange(f, v)
    \/ UpdSubmit
    \/ \E o \in Outcomes : UpdInsertReturns(o)

AppProjectsNext ==
    \/ \E f \in BagToSet(pvFetches), o \in Outcomes : PvFetchServe(f, o)
    \/ \E f \in BagToSet(pvFetches) : PvFetchSettle(f)
    \/ \E o \in Outcomes : PvOpenCreate(o)
    \/ CpClose
    \/ \E f \in {"name", "account_id"} :
          \E v \in CpFieldValues(f) : CpChange(f, v)
    \/ CpSubmit
    \/ \E o \in Outcomes : CpInsertReturns(o)
    \/ \E q \in DisplayedIds : PvDelete(q)
    \/ \E q \in BagToSet(pvDeletes), o \in Outcomes : PvDeleteReturns(q, o)

AppNext ==
    \/ vwKind = "Login" /\ LoginNext
    \/ vwKind = "CreateUpdate" /\ AppUpdatesNext
    \/ vwKind = "Projects" /\ AppProjectsNext
    \/ vwKind \in ViewKinds /\ ViewsNext

SpecApp == AppInit /\ [][AppNext]_vars

\* the application right after a sign-in, on its first tab
TabsInit ==
    /\ UpdInit
    /\ updVariant = "split"
    /\ session = 1
    /\ \A i \in DOMAIN profiles : profiles[i].user_id # NoUser

TabsNext ==
    \/ \E t \in Tabs : TabChange(t)
    \/ HandleShowCreateModal
    \/ QcOpenChange
    \/ \E k \in QuickCreateOptions : QcChoose(k)
    \/ QcModalClose
    \/ \E k \in QuickCreateOptions : QcSubmit(k)
    \/ \E k \in QuickCreateOptions, o \in Outcomes : QcInsertReturns(k, o)
    \/ RefreshTimerFires

SpecTabs == TabsInit /\ [][TabsNext]_vars

(***************************************************************************)
(* Properties of create-pin-auth (checked under SpecPinAuth)               *)
(***************************************************************************)

\* a POST request that has been taken up by the handler
FnPost(r) == reqs[r].pc # "idle" /\ reqs[r].method = "POST"

\* the body parsed to a value whose pin is missing, empty or not of length 6
PinMissingOrWrongLength(body) ==
    \/ body.kind \in {"nopin", "number"}
    \/ body.kind = "string" /\ Len(body.pin) # 6

\* the ops of the backend calls request r has made
FnOps(r) == {reqs[r].calls[k].op : k \in 1..Len(reqs[r].calls)}

\* C4: a request whose parsed body has pin missing, empty or of a length
\* other than 6 is answered 400 with an error body, and it makes no profile
\* lookup, no identity creation and no profile update.
C4_BadPinIs400 ==
    \A r \in 1..NReq :
        (FnPost(r) /\ PinMissingOrWrongLength(reqs[r].body)) =>
            /\ reqs[r].pc = "done"
            /\ Len(reqs[r].resp) = 1
            /\ reqs[r].resp[1].status = 400
            /\ reqs[r].resp[1].kind = "error"
            /\ reqs[r].calls = <<>>

C4_Witness ==
    \E r \in 1..NReq :
        /\ FnPost(r) /\ reqs[r].pc = "done"
        /\ reqs[r].body.kind = "string" /\ Len(reqs[r].body.pin) = 7
        /\ reqs[r].resp[1].status = 400

\* C5: a request with a well-formed 6-character pin whose lookup finds no
\* single row or returns an error is answered 401 with an error body; the
\* lookup is its only backend call (no identity created, no row modified).
C5_UnknownPinIs401 ==
    \A r \in 1..NReq :
        (/\ FnPost(r)
         /\ reqs[r].body.kind = "string" /\ Len(reqs[r].body.pin) = 6
         /\ Len(reqs[r].calls) >= 1
         /\ \/ reqs[r].calls[1].ret = "error"
            \/ RowsWithPin(reqs[r].body.pin) = {} /\ reqs[r].calls[1].ret # "throw") =>
            /\ FnOps(r) = {"lookup"}
            /\ Len(reqs[r].calls) = 1
            /\ reqs[r].pc \in {"lookupRet", "done"}
            /\ reqs[r].pc = "done" =>
                  /\ Len(reqs[r].resp) = 1
                  /\ reqs[r].resp[1].status = 401
                  /\ reqs[r].resp[1].kind = "error"

C5_Witness ==
    \E r \in 1..NReq :
        /\ FnPost(r) /\ reqs[r].pc = "done"
        /\ reqs[r].body.pin = UnknownPin
        /\ reqs[r].resp[1].status = 401

\* C6: every non-OPTIONS request receives exactly one response (none while
\* it is being served, and it can always take its next step); the status is
\* 200, 400, 401 or 500, and the body is {success, user_id} exactly when the
\* status is 200 and {error} otherwise.
C6_OneResponseWithStatus ==
    \A r \in 1..NReq :
        FnPost(r) =>
            /\ reqs[r].pc # "done" =>
                  /\ reqs[r].resp = <<>>
                  /\ ENABLED (\/ \E o \in Outcomes : DbLookup(r, o)
                              \/ \E o \in Outcomes : AuthCreateUser(r, o)
                              \/ \E o \in Outcomes : DbUpdate(r, o)
                              \/ FnAfterLookup(r) \/ FnAfterCreate(r)
                              \/ FnAfterUpdate(r) \/ FnCatch(r))
            /\ reqs[r].pc = "done" =>
                  /\ Len(reqs[r].resp) = 1
                  /\ reqs[r].resp[1].status \in {200, 400, 401, 500}
                  /\ reqs[r].resp[1].kind \in {"success", "error"}
                  /\ reqs[r].resp[1].kind = "success" <=> reqs[r].resp[1].status = 200
                  /\ reqs[r].resp[1].kind = "success" => reqs[r].resp[1].user_id # NoUser
                  /\ reqs[r].resp[1].kind = "error" => reqs[r].resp[1].error # ""

C6_Witness ==
    \E r \in 1..NReq :
        /\ FnPost(r) /\ reqs[r].pc = "done"
        /\ \E k \in 1..Len(reqs[r].calls) : reqs[r].calls[k].ret = "throw"
        /\ reqs[r].resp[1].status = 500

\* C7: when a request has returned {success: true, user_id: U}, the profiles
\* row with the request's pin has user_id U.
C7_SuccessIsLinked ==
    \A r \in 1..NReq :
        (FnPost(r) /\ reqs[r].pc = "done" /\ reqs[r].resp[1].kind = "success") =>
            /\ RowsWithPin(reqs[r].pin) # {}
            /\ \A i \in RowsWithPin(reqs[r].pin) :
                  profiles[i].user_id = reqs[r].resp[1].user_id

C7_Witness ==
    \E r \in 1..NReq :
        /\ FnPost(r) /\ reqs[r].pc = "done"
        /\ reqs[r].resp[1].kind = "success"
        /\ "update" \in FnOps(r)

\* C8 as stated: for a pin whose profile was already linked when the request
\* arrived, every request returns success with that user_id, creates no
\* identity and leaves the row unchanged.
C8_EveryRequestSucceeds ==
    \A r \in 1..NReq :
        (FnPost(r) /\ reqs[r].atArrival # NoUser /\ reqs[r].pc = "done") =>
            /\ reqs[r].resp[1].kind = "success"
            /\ reqs[r].resp[1].user_id = reqs[r].atArrival
            /\ FnOps(r) \subseteq {"lookup"}
            /\ LinkedUser(reqs[r].pin) = reqs[r].atArrival

\* C8 amended: for a pin whose profile was already linked when the request
\* arrived, the request makes no backend call but the lookup and the row
\* keeps its user_id; it returns success with that user_id when the lookup
\* succeeds, 401 when the lookup returns an error and 500 when it throws.
C8_IdempotentOnceLinked ==
    \A r \in 1..NReq :
        (FnPost(r) /\ reqs[r].atArrival # NoUser) =>
            /\ FnOps(r) \subseteq {"lookup"}
            /\ LinkedUser(reqs[r].pin) = reqs[r].atArrival
            /\ reqs[r].pc = "done" =>
                  /\ Len(reqs[r].calls) = 1
                  /\ reqs[r].calls[1].ret = "ok" =>
                        /\ reqs[r].resp[1].kind = "success"
                        /\ reqs[r].resp[1].user_id = reqs[r].atArrival
                  /\ reqs[r].calls[1].ret = "error" => reqs[r].resp[1].status = 401
                  /\ reqs[r].calls[1].ret = "throw" => reqs[r].resp[1].status = 500

C8_Witness ==
    \E r, q \in 1..NReq :
        /\ r # q
        /\ FnPost(r) /\ reqs[r].pc = "done" /\ reqs[r].atArrival # NoUser
        /\ FnPost(q) /\ reqs[q].pc = "done" /\ reqs[q].pin = reqs[r].pin
        /\ reqs[r].resp[1].kind = "success" /\ reqs[q].resp[1].kind = "success"
        /\ reqs[r].resp[1].user_id = reqs[q].resp[1].user_id

\* C14 as stated: when a request has finished, the identity it created (under
\* the email pin_<PIN>@iris.internal) is the user_id of the profiles row with
\* that PIN: no request ends leaving the identity it created unlinked.
C14_CreatedIsLinked ==
    \A r \in 1..NReq :
        (FnPost(r) /\ reqs[r].pc = "done" /\ reqs[r].authUser # NoUser) =>
            /\ \E u \in authUsers :
                  u.id = reqs[r].authUser /\ u.email = FnEmail(reqs[r].pin)
            /\ \A i \in RowsWithPin(reqs[r].pin) : profiles[i].user_id = reqs[r].authUser

(***************************************************************************)
(* Properties of the Login form and AuthProvider.login (under SpecLogin)   *)
(***************************************************************************)

\* exactly 6 characters, each a decimal digit
SixDigitPin(p) == Len(p) = 6 /\ \A k \in 1..Len(p) : p[k] \in Digits

\* the call logs of the login calls in flight and of the one resolved last
LoginLogs ==
    {logins[c].calls : c \in {d \in 1..MaxLogins : logins[d].pc # "idle"}}
    \cup (IF lastLogin.resolved THEN {lastLogin.calls} ELSE {})

HasOp(log, op) == \E k \in 1..Len(log) : log[k].op = op

C2_LookupFirst ==
    /\ \A c \in 1..MaxLogins :
          /\ logins[c].pc = "lookup" => logins[c].calls = <<>>
          /\ logins[c].pc \notin {"idle", "lookup"} =>
                /\ Len(logins[c].calls) >= 1
                /\ logins[c].calls[1].op = "lookup"
                /\ logins[c].calls[1].ret = "ok"
    /\ lastLogin.resolved =>
          /\ Len(lastLogin.calls) >= 1
          /\ lastLogin.calls[1].op = "lookup"
          /\ lastLogin.calls[1].ret # "ok" =>
                /\ lastLogin.result = FALSE
                /\ Len(lastLogin.calls) = 1
    /\ \A log \in LoginLogs : \A k \in 2..Len(log) : log[k].op # "lookup"

C2_Witness ==
    /\ lastLogin.resolved
    /\ lastLogin.calls[1].ret = "norow"
    /\ lastLogin.result = FALSE

\* C3: create_auth_user_for_pin is called exactly when the looked-up profile
\* has no user_id, as the call right after the lookup and before any
\* signInWithPassword; when it fails login resolves false without a sign-in;
\* when the profile has a user_id it is never called.
C3_RpcExactlyWhenUnlinked ==
    /\ \A log \in LoginLogs :
          /\ HasOp(log, "rpc") =>
                /\ log[1].ret = "ok" /\ log[1].user = NoUser
                /\ log[2].op = "rpc"
                /\ \A k \in 1..Len(log) : log[k].op = "signIn" => k > 2
          /\ (Len(log) >= 2 /\ log[1].user = NoUser) => log[2].op = "rpc"
          /\ (Len(log) >= 1 /\ log[1].user # NoUser) => ~HasOp(log, "rpc")
          /\ (Len(log) >= 2 /\ log[2].op = "rpc" /\ log[2].ret # "ok") => Len(log) = 2
    /\ \A c \in 1..MaxLogins :
          /\ logins[c].pc = "rpc" <=>
                (Len(logins[c].calls) = 1 /\ logins[c].calls[1].user = NoUser)
          /\ logins[c].pc = "signInDirect" <=>
                (Len(logins[c].calls) = 1 /\ logins[c].calls[1].user # NoUser)
          /\ Len(logins[c].calls) >= 2 => logins[c].calls[2].ret = "ok"
    /\ (lastLogin.resolved /\ HasOp(lastLogin.calls, "rpc")
            /\ lastLogin.calls[2].ret # "ok") => lastLogin.result = FALSE

C3_Witness ==
    /\ lastLogin.resolved
    /\ Len(lastLogin.calls) = 3
    /\ lastLogin.calls[2].op = "rpc"
    /\ lastLogin.calls[3].op = "signIn"
    /\ lastLogin.result = TRUE

\* the login calls in flight and the one resolved last, as [pin, calls]
LoginCalls ==
    {[pin |-> logins[c].pin, calls |-> logins[c].calls] :
        c \in {d \in 1..MaxLogins : logins[d].pc # "idle"}}
    \cup (IF lastLogin.resolved
          THEN {[pin |-> lastLogin.pin, calls |-> lastLogin.calls]} ELSE {})

\* the PINs the form can hold
FormPins == {InputOnChange(raw) : raw \in LoginRawInputs}

\* C15: every signInWithPassword of login(p), in either branch, sends the
\* email pin_<p>@iris.internal, which is the email create-pin-auth registers
\* for p, with the password p; a successful one signs in the identity
\* registered under that email; and distinct PINs have distinct emails.
C15_SameEmailEverywhere ==
    /\ \A l \in LoginCalls : \A k \in 1..Len(l.calls) :
          l.calls[k].op = "signIn" =>
              /\ l.calls[k].email = FnEmail(l.pin)
              /\ l.calls[k].email = <<"p", "i", "n", "_">> \o l.pin \o <<"@", "iris.internal">>
              /\ l.calls[k].password = l.pin
              /\ l.calls[k].ret = "ok" =>
                    \E u \in authUsers : u.id = l.calls[k].user /\ u.email = FnEmail(l.pin)
    /\ \A p, q \in FormPins :
          /\ LoginEmailDirect(p) = FnEmail(p)
          /\ LoginEmailAfter(p) = FnEmail(p)
          /\ p # q => FnEmail(p) # FnEmail(q)

C15_Witness ==
    /\ lastLogin.resolved
    /\ lastLogin.result = TRUE
    /\ Len(lastLogin.calls) = 2
    /\ lastLogin.calls[2].op = "signIn"
    /\ lastLogin.calls[2].email = FnEmail(PinOf(1))
    /\ session # NoUser

\* what handleLogin shows after `await login(pin)` resolved
LoginResolvedToasts == {"Welcome!", "Login Failed"}

\* C16: login() never rejects. Whatever the profile lookup, the rpc and the
\* sign-in do (row, no row, error result, exception), every login call that
\* has ended resolved to a boolean, and to true exactly when its last backend
\* call is a signInWithPassword that returned without error; the catch of
\* handleLogin never runs: its toast and its error text are never shown.
C16_LoginNeverRejects ==
    /\ lastLogin # NoLogin =>
          /\ lastLogin.resolved
          /\ lastLogin.result \in BOOLEAN
          /\ Len(lastLogin.calls) >= 1
          /\ lastLogin.result <=>
                LET last == lastLogin.calls[Len(lastLogin.calls)]
                IN  last.op = "signIn" /\ last.ret = "ok"
    /\ lastToast \in LoginResolvedToasts \cup {""}
    /\ formError # "An error occurred during login. Please try again."

\* a login call ended by an exception of signInWithPassword
C16_Witness ==
    /\ lastLogin # NoLogin
    /\ lastLogin.calls[Len(lastLogin.calls)].op = "signIn"
    /\ lastLogin.calls[Len(lastLogin.calls)].ret = "throw"
    /\ lastToast = "Login Failed"

(***************************************************************************)
(* Properties of CreateUpdateModal (checked under SpecUpdates)             *)
(***************************************************************************)

\* C9: an insert into updates is issued only by a submit made while a
\* profile is loaded and the form's project_id and content are non-empty (so
\* with no profile, or with an empty project or content, no insert is
\* issued); the row it sends carries created_by = the id of the loaded
\* profile and the form's project_id and content; and the updates table
\* grows only by the row of the insert in flight.
C9_InsertCarriesProfile ==
    [][/\ (~updInsert.active /\ updInsert'.active) =>
              /\ profile # NoUser
              /\ updForm.project_id # NoProject
              /\ updForm.content # ""
              /\ updInsert'.row.created_by = profile
              /\ updInsert'.row.project_id = updForm.project_id
              /\ updInsert'.row.content = updForm.content
       /\ dbUpdates' # dbUpdates =>
              /\ updInsert.active
              /\ dbUpdates' = Append(dbUpdates, updInsert.row)
              /\ updInsert.row.created_by # NoUser
              /\ updInsert.row.project_id # NoProject
              /\ updInsert.row.content # ""
      ]_vars

C9_Witness ==
    /\ profile # NoUser
    /\ Len(dbUpdates) > 0
    /\ dbUpdates[1].created_by = profile
    /\ updToast = "Update created successfully"

(***************************************************************************)
(* Properties of the Projects view and CreateProjectModal (checked under   *)
(* SpecProjects)                                                           *)
(***************************************************************************)

\* this step is the return of CreateProjectModal's insert, with success
ProjectCreated ==
    /\ cpInsert.active
    /\ ~cpInsert'.active
    /\ pvToast' = "Project created successfully"

\* this step is the settling of the fetchProjects() call f
FetchSettled(f) ==
    /\ f.stage = "served"
    /\ CopiesIn(f, pvFetches') < CopiesIn(f, pvFetches)

\* after a successful insert the project is in the table, under the name and
\* the account of the form, and one more fetchProjects() call is in flight
CreatedIsStoredAndRefetched ==
    ProjectCreated =>
        /\ \E q \in dbProjects' \ dbProjects :
              /\ q.name = cpInsert.row.name
              /\ q.account_id = cpInsert.row.account_id
              /\ q.account_id \in AccountIds
              /\ CopiesIn(SentFetch(q.id), pvFetches')
                    = CopiesIn(SentFetch(q.id), pvFetches) + 1
        /\ BagCardinality(pvFetches') = BagCardinality(pvFetches) + 1

ListIds(list) == {list[k].id : k \in 1..Len(list)}

\* C10 as stated: after CreateProjectModal's insert succeeds the project is
\* stored and the list is re-fetched, and when that re-fetch settles the
\* displayed list contains the new project.
C10_RefetchShowsCreated ==
    [][/\ CreatedIsStoredAndRefetched
       /\ \A f \in BagToSet(pvFetches) :
             (f.after # NoProject /\ FetchSettled(f)) => f.after \in DisplayedIds'
      ]_vars

\* C10 as amended: after CreateProjectModal's insert succeeds the project is
\* stored and the list is re-fetched; when that re-fetch settles with
\* success the list is the rows it returned, which hold the new project
\* unless it has been deleted, and the new project is displayed exactly when
\* it is in the list and the search term and the status filter let it
\* through; when the re-fetch fails the list stays as it was and the toast
\* 'Failed to load projects' is shown.
C10_RefetchShowsCreatedWhenOk ==
    [][/\ CreatedIsStoredAndRefetched
       /\ \A f \in BagToSet(pvFetches) :
             (f.after # NoProject /\ FetchSettled(f)) =>
                 IF f.ret = "ok"
                 THEN /\ pvProjects' = f.data
                      /\ f.after \in ListIds(pvProjects') \/ f.after \notin ProjectIds
                      /\ f.after \in DisplayedIds' <=>
                            \E k \in 1..Len(pvProjects') :
                                /\ pvProjects'[k].id = f.after
                                /\ MatchesSearch(pvProjects'[k], pvSearchTerm)
                                /\ MatchesStatus(pvProjects'[k], pvStatusFilter)
                      /\ ~pvLoading'
                 ELSE /\ pvProjects' = pvProjects
                      /\ pvToast' = "Failed to load projects"
      ]_vars

C10_Witness ==
    /\ pvFetches = EmptyBag
    /\ ~cpInsert.active
    /\ pvToast = "Project created successfully"
    /\ \E q \in dbProjects : q.id \in DisplayedIds /\ q.id \in ListIds(pvProjects)

(***************************************************************************)
(* Properties of the data-loading views (checked under SpecViews)          *)
(***************************************************************************)

\* this step is the call f going on after its awaited requests were answered
CallSettled(f) ==
    /\ Ready(f)
    /\ CopiesIn(f, vwCalls') < CopiesIn(f, vwCalls)

\* the descriptions of the error notifications of the views
FailureToasts ==
    {"Failed to load dashboard data", "Failed to load updates", "Failed to load accounts",
     "Failed to delete account", "Failed to load account details",
     "Failed to load project details", "Failed to load users",
     "Failed to load user activity"}

\* C11 as stated: in every view, when a call goes on after a request of its
\* await failed (an error returned or thrown), an error notification is
\* shown.
C11_FailedRequestToasts ==
    [][\A f \in BagToSet(vwCalls) :
          (CallSettled(f) /\ (Rejected(f) \/ ErrorReturned(f))) =>
              vwToast' \in FailureToasts
      ]_vars

(***************************************************************************)
(* Properties of the api client (checked under SpecApi)                    *)
(***************************************************************************)

\* the call made last was apiRequest without a service option, and it sent
\* its request
SentWithoutService ==
    /\ apiCall.via = "apiRequest"
    /\ apiCall.options.service = "absent"
    /\ apiCall.http # <<>>

\* C12 as stated: a call of apiRequest without a service option sends its
\* request to the OpenRouter base URL, with the header Authorization: Bearer
\* <openrouter key>, and the key is not appended to the URL.
C12_DefaultsToOpenRouter ==
    SentWithoutService =>
        /\ apiCall.http[1].url[1] = "https://openrouter.ai/api/v1"
        /\ "Authorization" \in DOMAIN apiCall.http[1].headers
        /\ apiCall.http[1].headers["Authorization"]
              = <<"Bearer ", GetApiKeys.openrouterApiKey.str>>
        /\ apiCall.http[1].url = <<"https://openrouter.ai/api/v1">> \o apiCall.options.endpoint

\* the environment variable is unset or empty
EnvAbsent(name) == apiEnv[name] \in {JsUndefined, JsStr("")}

SomeKeyAbsent == EnvAbsent("VITE_OPENROUTER_API_KEY") \/ EnvAbsent("VITE_GEMINI_API_KEY")

\* C13: ensureApiKeys throws exactly when at least one of the two keys is
\* absent, validateApiKeys is true exactly when both are present, and with a
\* key absent a call of apiRequest or of useApi.fetchData ends with the
\* "Missing required API keys" error without having sent an HTTP request,
\* whichever service it names; with both present it sends exactly one.
C13_NoRequestWithoutKeys ==
    /\ EnsureApiKeys # <<>> <=> SomeKeyAbsent
    /\ ValidateApiKeys <=> ~SomeKeyAbsent
    /\ (apiCall.pc # "idle" /\ SomeKeyAbsent) =>
          /\ apiCall.http = <<>>
          /\ apiCall.pc = "threw"
          /\ apiCall.error[1] = "Missing required API keys: "
          /\ apiCall.via = "fetchData" => (uaError = apiCall.error /\ ~uaLoading)
    /\ (apiCall.pc # "idle" /\ ~SomeKeyAbsent) => Len(apiCall.http) = 1

C13_Witness ==
    /\ apiCall.pc = "threw"
    /\ apiCall.via = "fetchData"
    /\ apiCall.options.service = "openrouter"
    /\ ~EnvAbsent("VITE_OPENROUTER_API_KEY")
    /\ EnvAbsent("VITE_GEMINI_API_KEY")
    /\ apiCall.http = <<>>


(***************************************************************************)
(* No retry                                                                *)
(***************************************************************************)

\* how often the log of a login call holds a call of op
OpCount(log, op) == Cardinality({k \in 1..Len(log) : log[k].op = op})

\* no login call, in flight or ended, has made one of its three backend
\* calls twice
LoginCallsOnce ==
    \A c \in 1..MaxLogins : \A op \in {"lookup", "rpc", "signIn"} :
        /\ OpCount(logins[c].calls, op) <= 1
        /\ OpCount(lastLogin.calls, op) <= 1

\* the descriptions of the error toasts of the Projects view, its modal, and
\* the two other create modals
PvFailureToasts ==
    {"Failed to load projects", "Failed to delete project",
     "Failed to create project. Please check the console for details."}
UpdFailureToasts ==
    {"Failed to load projects", "Failed to create update",
     "Failed to create update. Please check the console for details."}
CaFailureToast == "Failed to create account. Please check the console for details."

\* the requests in flight. The login calls and the edge function aside,
\* every request of the program is one of these.
RequestsInFlight ==
    BagCardinality(vwCalls) + BagCardinality(pvFetches) + BagCardinality(pvDeletes)
        + updFetches + (IF updInsert.active THEN 1 ELSE 0)
        + (IF cpInsert.active THEN 1 ELSE 0) + (IF caInsert.active THEN 1 ELSE 0)

\* this step is a function of a view or a modal going on after a request of
\* it failed
FailedRequestSettles ==
    \/ \E f \in BagToSet(vwCalls) : CallSettled(f) /\ (Rejected(f) \/ ErrorReturned(f))
    \/ \E f \in BagToSet(pvFetches) :
          f.stage = "served" /\ f.ret # "ok" /\ CopiesIn(f, pvFetches') < CopiesIn(f, pvFetches)
    \/ BagCardinality(pvDeletes') < BagCardinality(pvDeletes)
          /\ pvToast' = "Failed to delete project"
    \/ cpInsert.active /\ ~cpInsert'.active /\ pvToast' \in PvFailureToasts
    \/ caInsert.active /\ ~caInsert'.active /\ vwToast' = CaFailureToast
    \/ updFetches' < updFetches /\ updToast' = "Failed to load projects"
    \/ updInsert.active /\ ~updInsert'.active /\ updToast' \in UpdFailureToasts

\* C17: there is no retry. A login call makes each of its backend calls
\* (profile lookup, create_auth_user_for_pin, signInWithPassword) at most
\* once, and a step in which a view or a modal goes on after a failed request
\* sends no request: that request is gone and no other has been added.
C17_NoRetry ==
    [][/\ LoginCallsOnce'
       /\ FailedRequestSettles => RequestsInFlight' = RequestsInFlight - 1]_vars

\* a login call has ended after its sign-in returned an error, and nothing
\* is in flight
C17_Witness ==
    /\ lastLogin.resolved
    /\ ~lastLogin.result
    /\ Len(lastLogin.calls) = 3
    /\ lastLogin.calls[3].op = "signIn"
    /\ lastLogin.calls[3].ret = "error"
    /\ \A c \in 1..MaxLogins : logins[c].pc = "idle"


(***************************************************************************)
(* The loading flags                                                       *)
(***************************************************************************)

\* the functions of the views that end with setLoading(false)
LoadingFunctions ==
    {"fetchClientData", "fetchUserFrequency", "fetchDashboardData", "fetchUpdates",
     "fetchAccounts", "fetchAccountDetails", "fetchProjectDetails", "fetchUserActivity"}

\* the calls in flight of the functions that own the loading flag
LoadingCalls == {f \in BagToSet(vwCalls) : f.fn \in LoadingFunctions}

\* the view has made a fetch: on mount, or, for a detail modal, when it was
\* opened for a row
HasFetched ==
    IF vwKind \in {"AccountDetail", "ProjectDetail"} THEN vwSelected # 0
    ELSE vwKind \in ViewKinds

\* C18: once every fetch a view or detail modal has made has gone on after
\* its requests, with data or with an error returned or thrown, its loading
\* flag is false: Dashboard, Updates, Accounts, the account and project
\* detail modals, the user activity card, ClientOverview and
\* UserUpdateFrequency, and the Projects view.
C18_LoadingEnds ==
    /\ (HasFetched /\ LoadingCalls = {}) => ~vwLoading
    /\ (vwKind = "Projects" /\ pvFetches = EmptyBag) => ~pvLoading

\* a view whose fetch failed and is over shows its error, not the skeleton
C18_Witness ==
    /\ vwKind = "Updates"
    /\ vwCalls = EmptyBag
    /\ vwToast = "Failed to load updates"
    /\ ~vwLoading


(***************************************************************************)
(* The create modals after their insert                                    *)
(***************************************************************************)

\* the calls a, b, c are in the trace, in this order
CalledInOrder(trace, a, b, c) ==
    \E i, j, k \in 1..Len(trace) :
        i < j /\ j < k /\ trace[i] = a /\ trace[j] = b /\ trace[k] = c

Called(trace, a) == \E i \in 1..Len(trace) : trace[i] = a

\* this step is CreateAccountModal.handleSubmit going on after its insert
CaAfterInsertStep ==
    (caInsert.active /\ ~caInsert'.active) =>
        /\ ~caLoading'
        /\ IF dbAccounts' = dbAccounts
           THEN /\ caOpen' = caOpen
                /\ caForm' = caForm
                /\ vwCalls' = vwCalls
                /\ ~Called(submitTrace', "onAccountCreated")
           ELSE /\ caForm' = CaBlankForm
                /\ ~caOpen'
                /\ vwCalls' = BagAdd(vwCalls, SentCall("fetchAccounts", 0, {1}))
                /\ CalledInOrder(submitTrace', "setFormData", "onOpenChange",
                                 "onAccountCreated")

\* this step is CreateProjectModal.handleSubmit going on after its insert
CpAfterInsertStep ==
    (cpInsert.active /\ ~cpInsert'.active) =>
        /\ ~cpLoading'
        /\ IF dbProjects' = dbProjects
           THEN /\ pvCreateOpen' = pvCreateOpen
                /\ cpForm' = cpForm
                /\ pvFetches' = pvFetches
                /\ ~Called(submitTrace', "onProjectCreated")
           ELSE /\ cpForm' = CpBlankForm
                /\ ~pvCreateOpen'
                /\ BagCardinality(pvFetches') = BagCardinality(pvFetches) + 1
                /\ CalledInOrder(submitTrace', "setFormData", "onOpenChange",
                                 "onProjectCreated")

\* this step is CreateUpdateModal.handleSubmit going on after its insert
UpdAfterInsertStep ==
    (updInsert.active /\ ~updInsert'.active) =>
        /\ ~updLoading'
        /\ IF dbUpdates' = dbUpdates
           THEN /\ updOpen' = updOpen
                /\ updForm' = updForm
                /\ ~Called(submitTrace', "onUpdateCreated")
           ELSE /\ updForm' = UpdBlankForm(updInsert.preselected)
                /\ ~updOpen'
                /\ CalledInOrder(submitTrace', "setFormData", "onOpenChange",
                                 "onUpdateCreated")

\* C19: when handleSubmit of CreateAccountModal, CreateProjectModal or
\* CreateUpdateModal goes on after its insert, the submitting flag is false;
\* after a failed insert (no row stored) the dialog is as open as it was, the
\* form data is what it was, and the on-created callback is not called;
\* after a stored row the form is reset, the dialog is closed and the
\* callback is called, in this order.
C19_InsertOutcomeAndDialog ==
    [][CaAfterInsertStep /\ CpAfterInsertStep /\ UpdAfterInsertStep]_vars

\* the insert of the account modal has failed: the dialog is open with the
\* data entered
C19_Witness ==
    /\ vwKind = "CreateAccount"
    /\ ~caInsert.active
    /\ submitTrace = <<"toast", "setLoading">>
    /\ vwToast = CaFailureToast
    /\ caOpen
    /\ caForm.name = "Acme"
    /\ ~caLoading


(***************************************************************************)
(* CreateProjectModal: a project belongs to an account                     *)
(***************************************************************************)

\* C20: the insert CreateProjectModal has in flight was sent from a form with
\* a name and an account, and carries both; every row of the projects table
\* has an account; and a submit with the name or the account empty sends no
\* insert.
C20_ProjectHasAccount ==
    /\ cpInsert.active =>
          /\ cpInsert.row.name # <<>>
          /\ cpInsert.row.account_id # NoAccount
          /\ cpInsert.row.account_id \in cpAccounts
    /\ \A r \in dbProjects : r.account_id # NoAccount
    /\ (pvCreateOpen /\ ~cpLoading
            /\ (cpForm.name = <<>> \/ cpForm.account_id = NoAccount)) =>
          ~ENABLED (CpSubmit /\ cpInsert'.active)

\* the modal has stored a project, with its account
C20_Witness ==
    /\ pvToast = "Project created successfully"
    /\ \E r \in dbProjects : r.name # <<>> /\ r.account_id \in AccountIds

(***************************************************************************)
(* AppContent: what is rendered                                            *)
(***************************************************************************)

\* C21: the application layout is rendered only while loading is false and
\* the session is non-null, the Login screen exactly while loading is false
\* and the session is null, and isAuthenticated is (session is non-null);
\* the form and the application act only while they are rendered.
C21_RenderedByLoadingAndSession ==
    /\ AppContentRenders = "Layout" => ~authLoading /\ session # NoUser
    /\ AppContentRenders = "Login" <=> ~authLoading /\ session = NoUser
    /\ IsAuthenticated <=> session # NoUser
    /\ FormMounted <=> AppContentRenders = "Login"
    /\ AppMounted <=> AppContentRenders = "Layout"

\* the layout is rendered after a sign-in through the Login form
C21_Witness ==
    /\ AppContentRenders = "Layout"
    /\ lastLogin.resolved
    /\ lastLogin.result

(***************************************************************************)
(* AuthProvider: the profile and the session                               *)
(***************************************************************************)

\* C22: profile is never non-null while session is null: once logout() has
\* completed, profile stays null with user and session, also when a profile
\* fetch deferred by an earlier auth-state event resolves after the logout.
C22_NoProfileWithoutSession == session = NoUser => profile = NoUser

(***************************************************************************)
(* create-pin-auth: one identity creation per PIN                          *)
(***************************************************************************)

\* request r has invoked auth.admin.createUser
CreateUserInvoked(r) ==
    \E k \in 1..Len(reqs[r].calls) : reqs[r].calls[k].op = "createUser"

\* C23: under any interleaving of concurrent or repeated create-pin-auth
\* requests for the same PIN, auth.admin.createUser is invoked at most once
\* for that PIN: no two requests for one PIN have both invoked it.
C23_CreateUserOncePerPin ==
    \A r1, r2 \in 1..NReq :
        r1 # r2 /\ reqs[r1].pin = reqs[r2].pin /\ CreateUserInvoked(r1)
            => ~CreateUserInvoked(r2)

(***************************************************************************)
(* Login form: one login call at a time                                    *)
(***************************************************************************)

\* login(pin) calls started from the form and not resolved yet
LoginsInFlight == {c \in 1..MaxLogins : logins[c].pc # "idle"}

\* C24: while a login(pin) call started from the Login form is unresolved the
\* form cannot start another one, its submit control being disabled, so at
\* most one login call is in flight at any time.
C24_OneLoginAtATime ==
    /\ Cardinality(LoginsInFlight) <= 1
    /\ LoginsInFlight # {} /\ FormMounted => LoginSubmitDisabled

(***************************************************************************)
(* handleRefreshData and the user's tab                                    *)
(***************************************************************************)

\* C25: handleRefreshData never overrides the user's tab choice: once its
\* timers have fired, activeTab is the tab the user selected after it blanked
\* activeTab, if there is one, and activeTab is never left as the empty string.
C25_RefreshKeepsUserTab ==
    refreshTimers = <<>> =>
        /\ activeTab # ""
        /\ tabSelected # "" => activeTab = tabSelected

(***************************************************************************)
(* UserActivityCard: the list and the selected user                        *)
(***************************************************************************)

\* the rows the query of fetchUserActivity returns for selection u
UserActivityRows(u) == RequestRows(SentCall("fetchUserActivity", u, {1}), 1)

\* fetchUserActivity calls that have not settled
UserActivityFetches == {f \in BagToSet(vwCalls) : f.fn = "fetchUserActivity"}

\* C26: in UserActivityCard, once all pending fetches have settled (and none
\* has failed), the displayed activity list is the result of the query for
\* the currently selected user: a late response for an earlier selection
\* never replaces the result of the latest selection.
C26_ListOfSelectedUser ==
    vwKind = "UserActivity" /\ UserActivityFetches = {} /\ vwToast = ""
        => vwData["userActivity"] = UserActivityRows(vwSelected)

(***************************************************************************)
(* AccountDetailModal: Recent Updates                                      *)
(***************************************************************************)

\* the projects of account a
ProjectsOfAccount(a) == {q.id : q \in {r \in dbProjects : r.account_id = a}}

\* C27: after fetchAccountDetails has completed successfully for account X
\* (no call is in flight, none has failed, X's row is shown), every entry
\* under Recent Updates belongs to a project of X, whatever accounts were
\* opened before X, also when X has no projects.
C27_RecentUpdatesOfAccount ==
    /\ vwKind = "AccountDetail"
    /\ vwCalls = EmptyBag
    /\ vwToast = ""
    /\ vwData["account"] = {vwSelected}
    => \A u \in vwData["recentUpdates"] :
            dbUpdates[u].project_id \in ProjectsOfAccount(vwSelected)

====
